---- MODULE Spec2Model ----
(***************************************************************************)
(* Cassiopeia backend: the scheduled synchronization core.                 *)
(*                                                                         *)
(* These state machines share this module:                                *)
(*   Spec        the synchronization services (FetchAndStoreISSData,       *)
(*               FetchAndStoreOSDR, FetchAndStoreAPOD, FetchAndStoreNEO)   *)
(*               run by a worker tick and by an HTTP handler against the   *)
(*               Redis cache, the repository and the upstream API;         *)
(*   WorkerSpec  the lifecycle of one worker (Start, Stop, run loop);      *)
(*   SchedSpec   the Scheduler (AddWorker, Start, Stop) and the workers    *)
(*               registered with it;                                       *)
(*   ReadSpec    the read operations of the services (GetLastPosition,     *)
(*               GetTrend, GetPositionsHistory, GetOSDRList,               *)
(*               GetLatestAPOD, GetLatestNEO);                             *)
(*   UpsertSpec  osdrRepository.BulkUpsert and its transaction;            *)
(*   NasaSpec    NASAWorker.syncNASA and its three sub-syncs;              *)
(*   TickSpec    ISSWorker.run: the ticker against the ISS fetch lock;     *)
(*   LimiterSpec IPRateLimiter (GetLimiter, AddIP) under concurrent        *)
(*               requests;                                                 *)
(*   ExtractSpec the field extraction helpers extractString and            *)
(*               extractFloat;                                             *)
(*   TrendSpec   calculateTrend on two position samples;                   *)
(*   TelemetrySpec  telemetryService.GenerateTelemetry;                    *)
(*   SetSpec     cacheRepository.Set over the types of its value.          *)
(* Times are in seconds.                                                   *)
(***************************************************************************)
EXTENDS Integers, Sequences, FiniteSets, TLC

VARIABLES
    \* ---- Spec: synchronization services
    dom,          \* the fetch domain the behaviour exercises
    now,          \* wall clock
    faults,       \* history: collaborators (of Parts) that have failed at least once
    cache,        \* Redis: key -> [val, exp]; val = Empty when the key is absent
    repo,         \* durable repository: sequence of persisted records
    apiCalls,     \* number of upstream calls made so far
    pc,           \* per caller: position inside FetchAndStore*
    res,          \* per caller: outcome of its latest invocation
    data,         \* per caller: payload held by the invocation in progress
    startAt,      \* per caller: time its latest invocation started
    second,       \* per caller: its latest invocation started within the domain's
                  \* interval of the start of its previous one, which ended "ok"
    lastFetch,    \* time the latest successful upstream fetch completed, -1 if none
    lockAt,       \* history: time of the latest successful write of the lock key, -1 if none
    windowBroken, \* history: two successful fetches completed less than the lock TTL apart
    \* ---- WorkerSpec: worker lifecycle
    kind,         \* which worker: "ISS", "NASA" or "Telemetry"
    isRunning,    \* ISSWorker.isRunning / NASAWorker.running / TelemetryWorker.running
    stopClosed,   \* whether stopChan has been closed
    panicked,     \* the process died of a runtime panic
    cpc,          \* per calling goroutine: position inside Start or Stop
    loops,        \* the run-loop goroutines spawned so far, in spawn order
    settled,      \* history: a Start has returned and no Stop was called during or since
    tainted,      \* history: the goroutines inside a Start during which a Stop was called
    overlap,      \* history: two calls of Start or Stop have been in progress at once
    startSeen,    \* history: what became of the Start calls made on a settled worker:
                  \* "none" yet, "noop" (returned at the running test), "late" (went past it)
    \* ---- SchedSpec: the scheduler and its workers
    workers,      \* Scheduler.workers: the registered workers, by kind
    stopped,      \* Scheduler.stopped
    wg,           \* Scheduler.wg: the WaitGroup counter
    gos,          \* the goroutines launched by Scheduler.Start still inside their
                  \* worker's Start: per worker and statement, how many
    wRunning,     \* per registered worker: its running flag
    wClosed,      \* per registered worker: whether its stopChan has been closed
    wLoops,       \* per registered worker: number of its run loops alive
    spc,          \* per caller of Scheduler.Stop: [pc, i, n], position inside Stop
    crashed,      \* the process died of a runtime panic
    startCalls,   \* history: number of Scheduler.Start calls made
    stopCalls,    \* history: number of Scheduler.Stop calls made
    started,      \* history: a Scheduler.Start call went past the stopped test
    rejected,     \* history: a Scheduler.Start call returned at the stopped test
    lastStop,     \* history: how the latest Stop to return returned: "none" yet,
                  \* "graceful" or "timeout"
    \* ---- ReadSpec: the read operations
    rnow,         \* wall clock
    rcache,       \* Redis: key -> [val, exp]; val = NoText when the key is absent
    samples,      \* ISS repository: the position samples [pos, at], oldest first
    items,        \* OSDR repository: the items, oldest first
    readFetches,  \* number of upstream client calls made from inside read operations
    ret,          \* the read about to return: its name, what it returns, and what
                  \* its collaborators did (getUp, repoUp, setUp: the call did not
                  \* fail); NoRet when no read is about to return
    rop,          \* the read operation the behaviour exercises
    \* ---- UpsertSpec: osdrRepository.BulkUpsert
    table,        \* osdr_items as committed: a set of rows
    tx,           \* the BulkUpsert call in progress: [pc, items, i, rows,
                  \* skipped], rows being the table as its transaction sees it
                  \* and skipped the number of records it passed over; after
                  \* the call only skipped is kept
    before,       \* history: the committed table when the latest call began
    nextId,       \* the next value uuid_generate_v4() hands out
    unow,         \* wall clock: the instant of the latest call, two calls
                  \* being one tick apart
    uret,         \* what the latest BulkUpsert call returned: "none" yet,
                  \* "running", "ok" or "err"
    upserts,      \* history: number of BulkUpsert calls made
    seen,         \* what the latest reader of osdr_items was given
    \* ---- NasaSpec: NASAWorker.syncNASA
    syncPc,       \* position inside syncNASA: "idle" or the sub-sync to call next
    attempted,    \* the sub-syncs the current (or latest) sync has called, in order
    outcomes,     \* what each of them returned, in the same order
    osdrLock,     \* whether the key nasa:osdr:last_fetch is in the cache
    syncs,        \* history: number of syncNASA calls made
    \* ---- TickSpec: ISSWorker.run against the ISS fetch lock
    tnow,         \* wall clock
    ticker,       \* the run loop's ticker: [next, pending], the instant of its next
                  \* tick and whether a tick waits in its channel
    lockExp,      \* expiry instant of the key iss:last_fetch, 0 when it is absent
    wpc,          \* position of the run loop: "first", "select" or "fetching"
    invokedAt,    \* instant the invocation in progress began
    byTick,       \* whether the invocation in progress was started by a tick
    lastTick,     \* history: what the latest tick's invocation did: "none" yet,
                  \* "fetched" or "skipped"
    tFailed,      \* history: a call on the cache, the API or the repository failed
    \* ---- LimiterSpec: IPRateLimiter
    ips,          \* IPRateLimiter.ips: per client IP its limiter, NoLimiter when none
    mu,           \* IPRateLimiter.mu is locked
    lpc,          \* per request goroutine: position inside GetLimiter / AddIP
    larg,         \* per request goroutine: the IP its call was given
    nested,       \* per request goroutine: its AddIP was called by its GetLimiter
    lgot,         \* per request goroutine: the limiter its latest call returned
    limiters,     \* number of limiters rate.NewLimiter has made
    \* ---- ExtractSpec: extractString / extractFloat
    doc,          \* the decoded document: per key a value [t, f, s], t its Go type
    xret,         \* the latest extraction: [op, key, str, num]
    \* ---- TrendSpec: calculateTrend
    newer,        \* the sample passed as `current`: [pos, at]
    older,        \* the sample passed as `previous`
    trend,        \* the trend calculated from them: [done, val]
    \* ---- TelemetrySpec: telemetryService.GenerateTelemetry
    gpc,          \* position inside GenerateTelemetry: "idle", "csv" or "insert"
    csvFile,      \* the CSV file of the latest call: "none", "complete" or "broken"
                  \* (created, but not all of its bytes reached the disk)
    gi,           \* number of records the insert loop has gone through
    stored,       \* number of telemetry rows in the repository
    storedBefore, \* history: that number when the latest call began
    gret,         \* what the latest call returned: [state, records], state being
                  \* "none" yet, "running", "ok" or "err"
    generations,  \* history: number of GenerateTelemetry calls made
    \* ---- SetSpec: cacheRepository.Set
    kv,           \* Redis: per key the bytes stored, NoBytes when the key is absent
    sret          \* the latest Set call: [called, t, up, err], the type of its
                  \* value, whether the store took the write, whether Set
                  \* returned an error

syncVars == <<dom, now, faults, cache, repo, apiCalls, pc, res, data,
              startAt, second, lastFetch, windowBroken, lockAt>>
workerVars == <<kind, isRunning, stopClosed, panicked, cpc, loops, settled, tainted,
               overlap, startSeen>>
schedVars == <<workers, stopped, wg, gos, wRunning, wClosed, wLoops, spc, crashed,
              startCalls, stopCalls, started, rejected, lastStop>>
readVars == <<rnow, rcache, samples, items, readFetches, ret, rop>>
upsertVars == <<table, tx, before, nextId, unow, uret, upserts, seen>>
nasaVars == <<syncPc, attempted, outcomes, osdrLock, syncs>>
tickVars == <<tnow, ticker, lockExp, wpc, invokedAt, byTick, lastTick, tFailed>>
limiterVars == <<ips, mu, lpc, larg, nested, lgot, limiters>>
extractVars == <<doc, xret>>
trendVars == <<newer, older, trend>>
telemetryVars == <<gpc, csvFile, gi, stored, storedBefore, gret, generations>>
setVars == <<kv, sret>>
laterVars == <<nasaVars, tickVars, limiterVars, extractVars, trendVars, telemetryVars,
               setVars>>
vars == <<syncVars, workerVars, schedVars, readVars, upsertVars, laterVars>>

\* ---------------------------------------------------------------- bounds
MaxTime == 140
MaxCalls == 2
MaxLoops == 2
MaxFails == 2
MaxWorkers == 2
MaxStarts == 2
MaxStops == 2
MaxSamples == 3
MaxItems == 2
MaxReadTime == 180
MaxReadFetches == 2
MaxUpserts == 2
MaxBatch == 2
MaxSyncs == 2
MaxTickTime == 360
MaxLimiters == 2
MaxStrLen == 2
MaxGenerations == 2
SampleCount == 4

\* ------------------------------------------------------ program constants
ISSInterval == 120
ISSPositionTTL == 120
OSDRLockTTL == 600
APODCacheTTL == 86400
NEOCacheTTL == 7200
WorkerISSInterval == 120
ISSFetchTimeout == 30
NASAWorkerInterval == 3600
TrendTTL == 30
HistoryTTL == 300
OSDRListTTL == 300
MetresPerDegree == 111195
DiagonalMetres == 157250
MovementMetres == 100

\* -------------------------------------------------------------- universe
Domains == {"ISS", "OSDR", "APOD", "NEO"}
Guarded == {"ISS", "OSDR"}
Procs == {"worker", "http"}
Kinds == {"ISS", "NASA", "Telemetry"}
Goroutines == {"g1", "g2"}
Callers == {"m1", "m2"}
WorkerIds == 1..MaxWorkers
GoPcs == {"call", "set", "sync", "go"}
NoGos == [w \in WorkerIds |-> [p \in GoPcs |-> 0]]
Parts == {"cache", "api", "repo"}
Steps == {60, 70}
Keys == {"iss:last_fetch", "iss:last_position", "nasa:osdr:last_fetch",
         "nasa:apod:today", "nasa:neo:last_week"}
Empty == ""
Absent == [val |-> Empty, exp |-> 0]

LockKey(d) ==
    IF d = "ISS" THEN "iss:last_fetch" ELSE "nasa:osdr:last_fetch"

DataKey(d) ==
    CASE d = "ISS" -> "iss:last_position"
      [] d = "APOD" -> "nasa:apod:today"
      [] OTHER -> "nasa:neo:last_week"

LockTTL(d) ==
    IF d = "ISS" THEN ISSInterval ELSE OSDRLockTTL

DataTTL(d) ==
    CASE d = "ISS" -> ISSPositionTTL
      [] d = "APOD" -> APODCacheTTL
      [] OTHER -> NEOCacheTTL

\* The interval of a domain: the lock TTL where there is a lock, the NASA
\* worker's tick interval for the two NASA feeds that have none.
Interval(d) ==
    IF d \in Guarded THEN LockTTL(d) ELSE NASAWorkerInterval

\* ------------------------------------------------------------ Redis cache
\* A key set with a TTL exists until its expiry instant.
Live(c, k, t) == c[k].val # Empty /\ c[k].exp > t

\* cacheRepository.Get: (value, error). A missing key is ("", nil); a store
\* failure is ("", err).
CacheGet(c, k, t, up) ==
    IF ~up THEN [val |-> Empty, err |-> TRUE]
    ELSE IF Live(c, k, t) THEN [val |-> c[k].val, err |-> FALSE]
    ELSE [val |-> Empty, err |-> FALSE]

\* Mutant of CacheSet: the expiration is handed over in the wrong unit, so
\* the key outlives its TTL a thousandfold.
CacheSetWrongUnit(c, k, v, ttl, t, up) ==
    IF up THEN [c EXCEPT ![k] = [val |-> v, exp |-> t + 1000 * ttl]] ELSE c

\* cacheRepository.Set / SetJSON with a positive expiration: the new cache,
\* unchanged when the store write fails.
CacheSet(c, k, v, ttl, t, up) ==
    IF up THEN [c EXCEPT ![k] = [val |-> v, exp |-> t + ttl]] ELSE c

\* Mutant of Expire: the lock keys are deleted whenever time passes.
ExpireReleasesLocks(c, t) ==
    [k \in Keys |-> IF c[k].exp > t /\ k \notin {"iss:last_fetch", "nasa:osdr:last_fetch"}
                    THEN c[k] ELSE Absent]

\* Redis drops the keys whose expiry instant has passed.
Expire(c, t) ==
    [k \in Keys |-> IF c[k].exp > t THEN c[k] ELSE Absent]

\* ------------------------------------------------------------------ Init
\* NewISSWorker / NewNASAWorker / NewTelemetryWorker: a fresh worker, its
\* stop channel open, and no goroutine inside Start or Stop.
WorkerIdle ==
    /\ isRunning = FALSE
    /\ stopClosed = FALSE
    /\ panicked = FALSE
    /\ cpc = [c \in Goroutines |-> "idle"]
    /\ loops = <<>>
    /\ settled = FALSE
    /\ tainted = {}
    /\ overlap = FALSE
    /\ startSeen = "none"

\* The keys the read operations use, with their default arguments.
LastPositionKey == "iss:last_position"
TrendKey == "iss:trend:240"
HistoryKey == "iss:history:24h"
OSDRListKey == "nasa:osdr:list:1:20"
APODKey == "nasa:apod:today"
NEOReadKey == "nasa:neo:7d"
NEOStoreKey == "nasa:neo:last_week"
ReadKeys == {LastPositionKey, TrendKey, HistoryKey, OSDRListKey, APODKey,
             NEOReadKey, NEOStoreKey}
RAbsent == [val |-> <<>>, exp |-> 0]
NilMap == "nil"
ReadSteps == {60}
\* Positions the upstream source reports: latitude and longitude in
\* ten-thousandths of a degree, velocity in metres per second.
UnitsPerDegree == 10000
Positions ==
    {[lat |-> 0, lon |-> 0, vel |-> 0], [lat |-> UnitsPerDegree, lon |-> 0, vel |-> 5]}

ISSReads == {"GetLastPosition", "GetTrend", "GetPositionsHistory"}
AllReads == ISSReads \cup {"GetOSDRList", "GetLatestAPOD", "GetLatestNEO"}
NoRet ==
    [op |-> "none", val |-> <<>>, err |-> FALSE, hit |-> FALSE, read |-> FALSE,
     getUp |-> TRUE, repoUp |-> TRUE, setUp |-> TRUE]

\* The services before any read: empty cache, empty repositories.
ReadIdle ==
    /\ rnow = 0
    /\ rcache = [k \in ReadKeys |-> RAbsent]
    /\ samples = <<>>
    /\ items = <<>>
    /\ readFetches = 0
    /\ ret = NoRet

\* The batches BulkUpsert is handed: items [dataset, fields], the dataset id
\* empty or one of two natural keys, `fields` standing for the title, status,
\* raw payload and updated time the upstream record carries.
NoKey == ""
DatasetIds == {"K1", "K2"}
FieldValues == {"a", "b"}
Items == [dataset : DatasetIds \cup {NoKey}, fields : FieldValues]
Batches == UNION {[1..n -> Items] : n \in 1..MaxBatch}
ZeroTime == 0

\* NewOSDRRepository on an empty osdr_items table; no call made yet.
UpsertIdle ==
    /\ table = {}
    /\ tx = [pc |-> "idle", items |-> <<>>, i |-> 0, rows |-> {}, skipped |-> 0]
    /\ before = {}
    /\ nextId = 1
    /\ unow = 0
    /\ uret = "none"
    /\ upserts = 0
    /\ seen = {}

\* NewScheduler: no worker registered, not stopped, nothing launched.
SchedIdle ==
    /\ workers = <<>>
    /\ stopped = FALSE
    /\ wg = 0
    /\ gos = NoGos
    /\ wRunning = [w \in WorkerIds |-> FALSE]
    /\ wClosed = [w \in WorkerIds |-> FALSE]
    /\ wLoops = [w \in WorkerIds |-> 0]
    /\ spc = [c \in Callers |-> [pc |-> "idle", i |-> 0, n |-> 0]]
    /\ crashed = FALSE
    /\ startCalls = 0
    /\ stopCalls = 0
    /\ started = FALSE
    /\ rejected = FALSE
    /\ lastStop = "none"

\* NewNASAWorker: no sync made yet, no OSDR fetch lock in the cache.
NasaIdle ==
    /\ syncPc = "idle"
    /\ attempted = <<>>
    /\ outcomes = <<>>
    /\ osdrLock = FALSE
    /\ syncs = 0

\* ISSWorker.run has created its ticker and is about to make its first call;
\* the cache holds no lock.
TickIdle ==
    /\ tnow = 0
    /\ ticker = [next |-> WorkerISSInterval, pending |-> FALSE]
    /\ lockExp = 0
    /\ wpc = "first"
    /\ invokedAt = 0
    /\ byTick = FALSE
    /\ lastTick = "none"
    /\ tFailed = FALSE

\* NewIPRateLimiter: an empty map, the mutex unlocked, no request in flight.
Handlers == {"h1", "h2"}
ClientIPs == {"ip1", "ip2"}
NoLimiter == 0
LimiterIdle ==
    /\ ips = [ip \in ClientIPs |-> NoLimiter]
    /\ mu = FALSE
    /\ lpc = [h \in Handlers |-> "idle"]
    /\ larg = [h \in Handlers |-> "ip1"]
    /\ nested = [h \in Handlers |-> FALSE]
    /\ lgot = [h \in Handlers |-> NoLimiter]
    /\ limiters = 0

\* Documents as json.Unmarshal hands them over, map[string]interface{}: a
\* key is absent or holds a float64, an int, a string or a value of another
\* type (bool, nil, a nested object). Strings are sequences over a digit and
\* a letter.
Chars == {"1", "x"}
Strings == UNION {[1..n -> Chars] : n \in 0..MaxStrLen}
AbsentValue == [t |-> "absent", f |-> 0, s |-> <<>>]
Values ==
    {[t |-> "float64", f |-> 5, s |-> <<>>], [t |-> "int", f |-> 5, s |-> <<>>],
     [t |-> "bool", f |-> 0, s |-> <<>>]}
    \cup {[t |-> "string", f |-> 0, s |-> str] : str \in Strings}
DocKeys == <<"k1", "k2">>
Docs == [{"k1", "k2"} -> Values \cup {AbsentValue}]
NoExtract == [op |-> "none", key |-> "", str |-> <<>>, num |-> 0]

\* No document decoded, nothing extracted.
ExtractIdle ==
    /\ doc = [k \in {"k1", "k2"} |-> AbsentValue]
    /\ xret = NoExtract

\* The samples calculateTrend is given: positions on the prime meridian 0,
\* 8 and 10 ten-thousandths of a degree and one degree north of the equator
\* (0 m, 88 m, 111 m and 111 km from it), at rest or moving, the older one
\* taken at 0 and the newer one later.
TrendPositions == [lat : {0, 8, 10, UnitsPerDegree}, lon : {0}, vel : {0, 5}]
TrendGaps == {30, 60}
NoTrend ==
    [done |-> FALSE,
     val |-> [movement |-> FALSE, delta |-> 0, dt |-> 0, velocity |-> <<>>,
              from |-> <<>>, to |-> <<>>]]

\* No trend asked for.
TrendIdle ==
    /\ newer = [pos |-> [lat |-> 0, lon |-> 0, vel |-> 0], at |-> 0]
    /\ older = [pos |-> [lat |-> 0, lon |-> 0, vel |-> 0], at |-> 0]
    /\ trend = NoTrend

\* NewTelemetryService on an empty telemetry table; no call made yet.
TelemetryIdle ==
    /\ gpc = "idle"
    /\ csvFile = "none"
    /\ gi = 0
    /\ stored = 0
    /\ storedBefore = 0
    /\ gret = [state |-> "none", records |-> 0]
    /\ generations = 0

\* The values Set is handed: a string, a byte slice, a structured value
\* that json.Marshal encodes, and one it cannot encode (a channel, a NaN).
SetKeys == {"a", "b", "c"}
NoBytes == ""
SetValues ==
    {[t |-> "string", bytes |-> "s", marshals |-> TRUE],
     [t |-> "bytes", bytes |-> "b", marshals |-> TRUE],
     [t |-> "other", bytes |-> "{}", marshals |-> TRUE],
     [t |-> "other", bytes |-> NoBytes, marshals |-> FALSE]}
NoSet == [called |-> FALSE, t |-> "string", marshals |-> TRUE, up |-> TRUE, err |-> FALSE]

\* NewCacheRepository on an empty store; no call made yet.
SetIdle ==
    /\ kv = [k \in SetKeys |-> NoBytes]
    /\ sret = NoSet

\* The state machines added after the first five, before any step of theirs.
LaterIdle ==
    /\ NasaIdle
    /\ TickIdle
    /\ LimiterIdle
    /\ ExtractIdle
    /\ TrendIdle
    /\ TelemetryIdle
    /\ SetIdle

\* The services before any invocation: empty cache and repository.
SyncIdle ==
    /\ now = 0
    /\ faults = {}
    /\ cache = [k \in Keys |-> Absent]
    /\ repo = <<>>
    /\ apiCalls = 0
    /\ pc = [p \in Procs |-> "idle"]
    /\ res = [p \in Procs |-> "none"]
    /\ data = [p \in Procs |-> Empty]
    /\ startAt = [p \in Procs |-> 0]
    /\ second = [p \in Procs |-> FALSE]
    /\ lastFetch = -1
    /\ windowBroken = FALSE
    /\ lockAt = -1

Init ==
    /\ dom \in Domains
    /\ SyncIdle
    /\ kind = "ISS"
    /\ WorkerIdle
    /\ SchedIdle
    /\ ReadIdle
    /\ UpsertIdle
    /\ LaterIdle
    /\ rop = "GetLastPosition"

\* ----------------------------------------------------- environment steps
\* Time passes; Redis expires keys.
Advance ==
    \E d \in Steps :
        /\ now + d <= MaxTime
        /\ now' = now + d
        /\ cache' = Expire(cache, now + d)
        /\ UNCHANGED <<dom, faults, repo, apiCalls, pc, res, data, startAt,
                       second, lastFetch, windowBroken, lockAt>>

\* ------------------------------------------------ upstream payloads
PayloadNames == <<"p1", "p2", "p3", "p4", "p5", "p6">>
Payload(n) == PayloadNames[n]
EmptyList == "[]"

\* ----------------------------------- FetchAndStoreISSData / FetchAndStoreOSDR /
\* ----------------------------------- FetchAndStoreAPOD / FetchAndStoreNEO
\* The lock test: ISS `err == nil && cached != ""`, OSDR `cached != ""`.
LockSeen(d, got) ==
    IF d = "ISS" THEN ~got.err /\ got.val # Empty ELSE got.val # Empty

\* A caller (the worker's tick or an HTTP handler) enters FetchAndStore<dom>.
\* ISS and OSDR first read the lock key (the store may fail the lookup) and
\* `return nil` when they see it; FetchAndStoreAPOD and FetchAndStoreNEO have
\* no lock test: their first statement is the upstream call.
Invoke(p) ==
    /\ pc[p] = "idle"
    /\ apiCalls < MaxCalls
    /\ second' = [second EXCEPT ![p] = res[p] = "ok" /\ now - startAt[p] < Interval(dom)]
    /\ startAt' = [startAt EXCEPT ![p] = now]
    /\ IF dom \in Guarded
       THEN \E up \in BOOLEAN :
              LET got == CacheGet(cache, LockKey(dom), now, up) IN
              /\ faults' = IF up THEN faults ELSE faults \cup {"cache"}
              /\ IF LockSeen(dom, got)
                 THEN /\ pc' = pc
                      /\ res' = [res EXCEPT ![p] = "skipped"]
                 ELSE /\ pc' = [pc EXCEPT ![p] = "fetch"]
                      /\ res' = [res EXCEPT ![p] = "running"]
       ELSE /\ pc' = [pc EXCEPT ![p] = "fetch"]
            /\ res' = [res EXCEPT ![p] = "running"]
            /\ faults' = faults
    /\ UNCHANGED <<dom, now, cache, repo, apiCalls, data, lastFetch,
                   windowBroken, lockAt>>

\* Mutant of Fetch: the lock is written before the outcome of the upstream
\* call is known, so a failed call leaves the lock behind.
FetchLocksFirst(p) ==
    /\ pc[p] = "fetch"
    /\ apiCalls' = apiCalls + 1
    /\ \/ /\ data' = [data EXCEPT ![p] = Payload(apiCalls + 1)]
          /\ pc' = [pc EXCEPT ![p] = IF dom \in Guarded THEN "persist" ELSE "cache"]
          /\ lastFetch' = now
          /\ windowBroken' = (windowBroken \/
                 (dom \in Guarded /\ lastFetch >= 0 /\ now - lastFetch < LockTTL(dom)))
          /\ UNCHANGED <<res, faults, cache, lockAt>>
       \/ /\ pc' = [pc EXCEPT ![p] = "idle"]
          /\ res' = [res EXCEPT ![p] = "fetchErr"]
          /\ faults' = faults \cup {"api"}
          /\ cache' = CacheSet(cache, LockKey(dom), "1", LockTTL(dom), now, TRUE)
          /\ lockAt' = now
          /\ UNCHANGED <<data, lastFetch, windowBroken>>
    /\ UNCHANGED <<dom, now, repo, startAt, second>>

\* The upstream call: client.GetCurrentPosition / FetchOSDR / FetchAPOD /
\* FetchNEOFeed. An error returns at once; OSDR may answer with an empty list.
Fetch(p) ==
    /\ pc[p] = "fetch"
    /\ apiCalls' = apiCalls + 1
    /\ \/ /\ \E d \in {Payload(apiCalls + 1)} \cup (IF dom = "OSDR" THEN {EmptyList} ELSE {}) :
                data' = [data EXCEPT ![p] = d]
          /\ pc' = [pc EXCEPT ![p] = IF dom \in Guarded THEN "persist" ELSE "cache"]
          /\ lastFetch' = now
          /\ windowBroken' = (windowBroken \/
                 (dom \in Guarded /\ lastFetch >= 0 /\ now - lastFetch < LockTTL(dom)))
          /\ UNCHANGED <<res, faults>>
       \/ /\ pc' = [pc EXCEPT ![p] = "idle"]
          /\ res' = [res EXCEPT ![p] = "fetchErr"]
          /\ faults' = faults \cup {"api"}
          /\ UNCHANGED <<data, lastFetch, windowBroken>>
    /\ UNCHANGED <<dom, now, cache, repo, startAt, second, lockAt>>

\* Mutant of Persist: a failed repository write is only logged and the
\* invocation goes on to its cache writes.
PersistLogOnly(p) ==
    /\ pc[p] = "persist"
    /\ pc' = [pc EXCEPT ![p] = IF dom = "ISS" THEN "cache" ELSE "lock"]
    /\ \/ /\ repo' = Append(repo, data[p])
          /\ faults' = faults
       \/ /\ repo' = repo
          /\ faults' = faults \cup {"repo"}
    /\ UNCHANGED <<dom, now, cache, apiCalls, res, data, startAt, second, lastFetch,
                   windowBroken, lockAt>>

\* repo.Create (ISS) / `if len(dbItems) > 0 { repo.BulkUpsert }` (OSDR): a
\* failed write returns the error, before any cache write.
Persist(p) ==
    /\ pc[p] = "persist"
    /\ IF dom = "OSDR" /\ data[p] = EmptyList
       THEN /\ pc' = [pc EXCEPT ![p] = "lock"]
            /\ UNCHANGED <<repo, res, faults, data>>
       ELSE \/ /\ repo' = Append(repo, data[p])
               /\ pc' = [pc EXCEPT ![p] = IF dom = "ISS" THEN "cache" ELSE "lock"]
               /\ UNCHANGED <<res, faults, data>>
            \/ /\ pc' = [pc EXCEPT ![p] = "idle"]
               /\ res' = [res EXCEPT ![p] = "persistErr"]
               /\ faults' = faults \cup {"repo"}
               /\ data' = [data EXCEPT ![p] = Empty]
               /\ repo' = repo
    /\ UNCHANGED <<dom, now, cache, apiCalls, startAt, second, lastFetch,
                   windowBroken, lockAt>>

\* The cache write of the fetched payload. ISS: Set("iss:last_position", 2 min),
\* a failure is logged and the invocation goes on. APOD / NEO: SetJSON, a
\* failure is returned; it is their last statement.
CacheData(p) ==
    /\ pc[p] = "cache"
    /\ \E up \in BOOLEAN :
        /\ cache' = CacheSet(cache, DataKey(dom), data[p], DataTTL(dom), now, up)
        /\ faults' = IF up THEN faults ELSE faults \cup {"cache"}
        /\ IF dom = "ISS"
           THEN /\ pc' = [pc EXCEPT ![p] = "lock"]
                /\ UNCHANGED <<res, data>>
           ELSE /\ pc' = [pc EXCEPT ![p] = "idle"]
                /\ res' = [res EXCEPT ![p] = IF up THEN "ok" ELSE "cacheErr"]
                /\ data' = [data EXCEPT ![p] = Empty]
    /\ UNCHANGED <<dom, now, repo, apiCalls, startAt, second, lastFetch,
                   windowBroken, lockAt>>

\* Mutant of SetLock: the marker is written under the payload's key, not the
\* key the lock test reads.
SetLockWrongKey(p) ==
    /\ pc[p] = "lock"
    /\ cache' = CacheSet(cache, DataKey(dom), "1", LockTTL(dom), now, TRUE)
    /\ pc' = [pc EXCEPT ![p] = "idle"]
    /\ res' = [res EXCEPT ![p] = "ok"]
    /\ data' = [data EXCEPT ![p] = Empty]
    /\ UNCHANGED <<dom, now, faults, repo, apiCalls, startAt, second, lastFetch,
                   windowBroken, lockAt>>

\* Set(<lock key>, "1", TTL) and `return nil`: a failed Set is logged (ISS) or
\* ignored (OSDR).
SetLock(p) ==
    /\ pc[p] = "lock"
    /\ \E up \in BOOLEAN :
        /\ cache' = CacheSet(cache, LockKey(dom), "1", LockTTL(dom), now, up)
        /\ faults' = IF up THEN faults ELSE faults \cup {"cache"}
        /\ lockAt' = IF up THEN now ELSE lockAt
    /\ pc' = [pc EXCEPT ![p] = "idle"]
    /\ res' = [res EXCEPT ![p] = "ok"]
    /\ data' = [data EXCEPT ![p] = Empty]
    /\ UNCHANGED <<dom, now, repo, apiCalls, startAt, second, lastFetch,
                   windowBroken>>

Next ==
    \/ Advance /\ UNCHANGED <<workerVars, schedVars, readVars, upsertVars, laterVars>>
    \/ \E p \in Procs : Invoke(p) /\ UNCHANGED <<workerVars, schedVars, readVars, upsertVars, laterVars>>
    \/ \E p \in Procs : Fetch(p) /\ UNCHANGED <<workerVars, schedVars, readVars, upsertVars, laterVars>>
    \/ \E p \in Procs : Persist(p) /\ UNCHANGED <<workerVars, schedVars, readVars, upsertVars, laterVars>>
    \/ \E p \in Procs : CacheData(p) /\ UNCHANGED <<workerVars, schedVars, readVars, upsertVars, laterVars>>
    \/ \E p \in Procs : SetLock(p) /\ UNCHANGED <<workerVars, schedVars, readVars, upsertVars, laterVars>>

Spec == Init /\ [][Next]_vars

\* ===================================================== claims on Spec
\* Caller p has just entered FetchAndStore<dom> in this step.
Invoked(p) ==
    /\ pc[p] = "idle"
    /\ \/ pc'[p] = "fetch"
       \/ /\ res'[p] = "skipped"
          /\ <<res[p], startAt[p], second[p]>> # <<res'[p], startAt'[p], second'[p]>>

\* The lock key exists in Redis at the current instant.
LockLive == Live(cache, LockKey(dom), now)

\* C1: in a lock-guarded domain (ISS, OSDR), with no collaborator ever
\* failing, no two successful upstream fetches complete less than the lock
\* TTL apart, however the worker's tick and the HTTP call interleave.
C1_OneFetchPerWindow ==
    (dom \in Guarded /\ faults = {}) => ~windowBroken

\* C2, as claimed for all four domains: an invocation that starts within the
\* domain's interval of the caller's previous, successful one makes no
\* upstream call and persists nothing (it ends as skipped by the lock), the
\* cache never having failed.
C2_SecondTickSkips ==
    \A p \in Procs :
        (second[p] /\ "cache" \notin faults) => (pc[p] = "idle" /\ res[p] = "skipped")

\* C2, amended: the same for the two lock-guarded domains, ISS and OSDR.
C2_SecondTickSkipsGuarded ==
    dom \in Guarded => C2_SecondTickSkips

C2_Witness ==
    /\ dom \in Guarded
    /\ second["worker"]
    /\ "cache" \notin faults
    /\ res["worker"] = "skipped"
    /\ apiCalls = 1
    /\ Len(repo) = 1
    /\ now > startAt["worker"]

\* C3: a fetch is due exactly when the lock is absent. An invocation that
\* starts when no lock was ever written, or LockTTL seconds or more after
\* the latest lock write, goes on to the upstream call; one that starts
\* sooner, the cache never having failed, returns without an upstream call.
C3_LockAbsentMeansFetchDue ==
    [][\A p \in Procs :
          (dom \in Guarded /\ Invoked(p)) =>
              /\ (lockAt < 0 \/ now >= lockAt + LockTTL(dom)) => pc'[p] = "fetch"
              /\ (lockAt >= 0 /\ now < lockAt + LockTTL(dom) /\ "cache" \notin faults')
                    => (pc'[p] = "idle" /\ res'[p] = "skipped" /\ apiCalls' = apiCalls)
      ]_vars

\* The scenario of the claim: the lock written at t=0 with TTL 120, one
\* upstream call so far, and the tick at t=130 is at its upstream call.
C3_Witness ==
    /\ dom = "ISS"
    /\ lockAt = 0
    /\ lastFetch = 0
    /\ apiCalls = 1
    /\ now = 130
    /\ startAt["worker"] = 130
    /\ pc["worker"] = "fetch"
    /\ faults = {}

\* C4: an invocation whose upstream call fails returns an error and writes
\* nothing: no lock, no cache entry, no repository record; an invocation
\* that follows a failed one while the lock is absent calls upstream again.
C4_FetchFailureTouchesNothing ==
    [][\A p \in Procs :
          /\ (pc[p] = "fetch" /\ pc'[p] = "idle") =>
                (res'[p] = "fetchErr" /\ cache' = cache /\ repo' = repo /\ lockAt' = lockAt)
          /\ (res[p] = "fetchErr" /\ Invoked(p) /\ ~LockLive) => pc'[p] = "fetch"
      ]_vars

C4_Witness ==
    /\ res["worker"] = "fetchErr"
    /\ pc["worker"] = "idle"
    /\ pc["http"] = "idle"
    /\ apiCalls = 1
    /\ ~LockLive
    /\ repo = <<>>

\* C5, as claimed: after an invocation whose repository write failed (the
\* only failure so far), the fetch lock is present for the rest of the
\* interval.
C5_LockSetDespitePersistFailure ==
    \A p \in Procs :
        (dom \in Guarded /\ pc[p] = "idle" /\ res[p] = "persistErr"
            /\ faults = {"repo"} /\ now - startAt[p] < LockTTL(dom)) => LockLive

\* C5, amended: a failed repository write ends the invocation with the
\* persistence error and with no write to the cache: neither the lock nor
\* the cached payload is set by that invocation.
C5_PersistFailureAborts ==
    [][\A p \in Procs :
          /\ (pc[p] = "persist" /\ pc'[p] = "idle") =>
                (res'[p] = "persistErr" /\ cache' = cache /\ repo' = repo /\ lockAt' = lockAt)
          /\ (pc[p] = "persist" /\ pc'[p] # "persist" /\ "repo" \in faults' \ faults) =>
                (pc'[p] = "idle" /\ res'[p] = "persistErr")
      ]_vars

C5_Witness ==
    /\ dom \in Guarded
    /\ res["worker"] = "persistErr"
    /\ pc["worker"] = "idle"
    /\ pc["http"] = "idle"
    /\ apiCalls = 1
    /\ ~LockLive
    /\ repo = <<>>

\* C6: a force-sync call (the HTTP caller) is never turned away by the fetch
\* lock: with every collaborator working, it never ends as skipped.
C6_ForceSyncBypassesLock ==
    faults = {} => res["http"] # "skipped"

\* C22: an invocation whose upstream call succeeded and that then ends,
\* ends with success, whatever became of its cache writes; for all four
\* synchronization operations.
C22_CacheWriteFailureNonFatal ==
    [][\A p \in Procs :
          (pc[p] \in {"cache", "lock"} /\ pc'[p] = "idle") => res'[p] = "ok"
      ]_vars

\* C27: the lock keys change in two ways only: the Set with the lock TTL that
\* ends a successful invocation of the key's domain, and the expiry of that
\* TTL as time passes. Nothing deletes a lock key before its expiry instant.
LockKeys == {"iss:last_fetch", "nasa:osdr:last_fetch"}
C27_LockNeverReleased ==
    [][\A k \in LockKeys :
          cache'[k] # cache[k] =>
              \/ /\ k = LockKey(dom)
                 /\ dom \in Guarded
                 /\ now' = now
                 /\ cache'[k] = [val |-> "1", exp |-> now + LockTTL(dom)]
                 /\ \E p \in Procs : pc[p] = "lock" /\ pc'[p] = "idle" /\ res'[p] = "ok"
              \/ /\ now' > now
                 /\ cache[k].exp <= now'
                 /\ cache'[k] = Absent
      ]_vars

\* The lock written at t=0 by a successful FetchAndStoreISSData was there at
\* t=60 and is gone at t=120, its TTL over, no invocation having run since.
C27_Witness ==
    /\ dom = "ISS"
    /\ lockAt = 0
    /\ now = ISSInterval
    /\ apiCalls = 1
    /\ res["worker"] = "ok"
    /\ res["http"] = "none"
    /\ cache["iss:last_fetch"] = Absent
\* ============================================================ WorkerSpec
\* One worker (ISSWorker, NASAWorker or TelemetryWorker), the goroutines that
\* call its Start and Stop, and the run-loop goroutines Start spawns. Each
\* action is one statement of the source.
Min(a, b) == IF a < b THEN a ELSE b

Starting == {c \in Goroutines : cpc[c] \in {"start_set", "start_sync", "start_go"}}
Stopping == {c \in Goroutines : cpc[c] \in {"stop_close", "stop_clear"}}
LoopIds == 1..Len(loops)
LiveLoops == {l \in LoopIds : loops[l].pc # "exited"}
InFlight ==
    Cardinality({l \in LoopIds : loops[l].pc = "invoking"})
        + Cardinality({c \in Goroutines : cpc[c] = "start_sync"})

\* Start, first statement: `if w.isRunning { return }`.
StartCall(c) ==
    /\ ~panicked
    /\ cpc[c] = "idle"
    /\ IF isRunning
       THEN /\ cpc' = cpc
            /\ startSeen' = IF settled /\ startSeen = "none" THEN "noop" ELSE startSeen
       ELSE /\ Len(loops) + Cardinality(Starting) < MaxLoops
            /\ cpc' = [cpc EXCEPT ![c] = "start_set"]
            /\ startSeen' = IF settled THEN "late" ELSE startSeen
    /\ overlap' = (overlap \/ (~isRunning /\ Starting \cup Stopping # {}))
    /\ UNCHANGED <<kind, isRunning, stopClosed, panicked, loops, settled, tainted>>

\* Mutant of StartSet: Start forgets to raise the running flag.
StartSetForgetsFlag(c) ==
    /\ ~panicked
    /\ cpc[c] = "start_set"
    /\ cpc' = [cpc EXCEPT ![c] = IF kind = "ISS" THEN "start_go" ELSE "start_sync"]
    /\ UNCHANGED <<kind, isRunning, stopClosed, panicked, loops, settled, tainted, overlap,
                   startSeen>>

\* Start: `w.isRunning = true`. NASA and Telemetry then run one
\* synchronization in the caller's goroutine; ISS goes straight to `go w.run()`.
StartSet(c) ==
    /\ ~panicked
    /\ cpc[c] = "start_set"
    /\ isRunning' = TRUE
    /\ cpc' = [cpc EXCEPT ![c] = IF kind = "ISS" THEN "start_go" ELSE "start_sync"]
    /\ UNCHANGED <<kind, stopClosed, panicked, loops, settled, tainted, overlap,
                   startSeen>>

\* Start (NASA, Telemetry): `w.syncNASA()` / `w.generateTelemetry()` returns;
\* its error, if any, was logged.
StartSync(c) ==
    /\ ~panicked
    /\ cpc[c] = "start_sync"
    /\ cpc' = [cpc EXCEPT ![c] = "start_go"]
    /\ UNCHANGED <<kind, isRunning, stopClosed, panicked, loops, settled, tainted, overlap,
                   startSeen>>

\* Mutant of StartGo: the ISS run loop too begins at its select, so that its
\* first fetch waits for the first tick.
StartGoWaitsForTick(c) ==
    /\ ~panicked
    /\ cpc[c] = "start_go"
    /\ loops' = Append(loops, [pc |-> "select", tick |-> FALSE, fails |-> 0])
    /\ cpc' = [cpc EXCEPT ![c] = "idle"]
    /\ settled' = (Stopping = {} /\ c \notin tainted)
    /\ tainted' = tainted \ {c}
    /\ UNCHANGED <<kind, isRunning, stopClosed, panicked, overlap, startSeen>>

\* Start: `go w.run()`, and Start returns. run() creates its ticker; the ISS
\* loop is about to make its first fetch, the others wait in the select.
StartGo(c) ==
    /\ ~panicked
    /\ cpc[c] = "start_go"
    /\ loops' = Append(loops, [pc |-> IF kind = "ISS" THEN "first" ELSE "select",
                               tick |-> FALSE, fails |-> 0])
    /\ cpc' = [cpc EXCEPT ![c] = "idle"]
    /\ settled' = (Stopping = {} /\ c \notin tainted)
    /\ tainted' = tainted \ {c}
    /\ UNCHANGED <<kind, isRunning, stopClosed, panicked, overlap, startSeen>>

\* Stop, first statement: `if !w.isRunning { return }`.
StopCall(c) ==
    /\ ~panicked
    /\ cpc[c] = "idle"
    /\ cpc' = [cpc EXCEPT ![c] = IF isRunning THEN "stop_close" ELSE "idle"]
    /\ settled' = FALSE
    /\ tainted' = tainted \cup Starting
    /\ overlap' = (overlap \/ (isRunning /\ Starting \cup Stopping # {}))
    /\ UNCHANGED <<kind, isRunning, stopClosed, panicked, loops, startSeen>>

\* Stop: `close(w.stopChan)`. Closing a closed channel panics.
StopClose(c) ==
    /\ ~panicked
    /\ cpc[c] = "stop_close"
    /\ IF stopClosed
       THEN /\ panicked' = TRUE
            /\ UNCHANGED <<stopClosed, cpc>>
       ELSE /\ stopClosed' = TRUE
            /\ cpc' = [cpc EXCEPT ![c] = "stop_clear"]
            /\ panicked' = panicked
    /\ UNCHANGED <<kind, isRunning, loops, settled, tainted, overlap, startSeen>>

\* Stop: `w.isRunning = false`, and Stop returns.
StopClear(c) ==
    /\ ~panicked
    /\ cpc[c] = "stop_clear"
    /\ isRunning' = FALSE
    /\ cpc' = [cpc EXCEPT ![c] = "idle"]
    /\ UNCHANGED <<kind, stopClosed, panicked, loops, settled, tainted, overlap,
                   startSeen>>

\* The ticker of a run loop fires: ticker.C holds at most one tick.
TimerFire(l) ==
    /\ ~panicked
    /\ loops[l].pc # "exited"
    /\ ~loops[l].tick
    /\ loops' = [loops EXCEPT ![l].tick = TRUE]
    /\ UNCHANGED <<kind, isRunning, stopClosed, panicked, cpc, settled, tainted, overlap,
                   startSeen>>

\* ISSWorker.run: the first `w.fetchISSData()`, made before the select.
LoopFirst(l) ==
    /\ ~panicked
    /\ loops[l].pc = "first"
    /\ loops' = [loops EXCEPT ![l].pc = "invoking"]
    /\ UNCHANGED <<kind, isRunning, stopClosed, panicked, cpc, settled, tainted, overlap,
                   startSeen>>

\* run: `case <-ticker.C:` the tick is taken and the synchronization starts.
LoopTick(l) ==
    /\ ~panicked
    /\ loops[l].pc = "select"
    /\ loops[l].tick
    /\ loops' = [loops EXCEPT ![l].pc = "invoking", ![l].tick = FALSE]
    /\ UNCHANGED <<kind, isRunning, stopClosed, panicked, cpc, settled, tainted, overlap,
                   startSeen>>

\* run: `case <-w.stopChan: return` (with the deferred ticker.Stop()).
LoopStop(l) ==
    /\ ~panicked
    /\ loops[l].pc = "select"
    /\ stopClosed
    /\ loops' = [loops EXCEPT ![l].pc = "exited", ![l].tick = FALSE]
    /\ UNCHANGED <<kind, isRunning, stopClosed, panicked, cpc, settled, tainted, overlap,
                   startSeen>>

\* Mutant of LoopEndInvoke: the loop returns when the synchronization fails.
LoopEndInvokeExitsOnError(l, ok) ==
    /\ ~panicked
    /\ loops[l].pc = "invoking"
    /\ loops' = [loops EXCEPT ![l].pc = IF ok THEN "select" ELSE "exited",
                              ![l].fails = IF ok THEN 0 ELSE Min(@ + 1, MaxFails)]
    /\ UNCHANGED <<kind, isRunning, stopClosed, panicked, cpc, settled, tainted, overlap,
                   startSeen>>

\* fetchISSData / syncNASA / generateTelemetry returns to the loop: an error
\* is logged, and the loop is back at its select either way.
LoopEndInvoke(l, ok) ==
    /\ ~panicked
    /\ loops[l].pc = "invoking"
    /\ loops' = [loops EXCEPT ![l].pc = "select",
                              ![l].fails = IF ok THEN 0 ELSE Min(@ + 1, MaxFails)]
    /\ UNCHANGED <<kind, isRunning, stopClosed, panicked, cpc, settled, tainted, overlap,
                   startSeen>>

WorkerInit ==
    /\ dom = "ISS"
    /\ SyncIdle
    /\ kind \in Kinds
    /\ WorkerIdle
    /\ SchedIdle
    /\ ReadIdle
    /\ UpsertIdle
    /\ LaterIdle
    /\ rop = "GetLastPosition"

WorkerNext ==
    \/ \E c \in Goroutines : StartCall(c) /\ UNCHANGED <<syncVars, schedVars, readVars, upsertVars, laterVars>>
    \/ \E c \in Goroutines : StartSet(c) /\ UNCHANGED <<syncVars, schedVars, readVars, upsertVars, laterVars>>
    \/ \E c \in Goroutines : StartSync(c) /\ UNCHANGED <<syncVars, schedVars, readVars, upsertVars, laterVars>>
    \/ \E c \in Goroutines : StartGo(c) /\ UNCHANGED <<syncVars, schedVars, readVars, upsertVars, laterVars>>
    \/ \E c \in Goroutines : StopCall(c) /\ UNCHANGED <<syncVars, schedVars, readVars, upsertVars, laterVars>>
    \/ \E c \in Goroutines : StopClose(c) /\ UNCHANGED <<syncVars, schedVars, readVars, upsertVars, laterVars>>
    \/ \E c \in Goroutines : StopClear(c) /\ UNCHANGED <<syncVars, schedVars, readVars, upsertVars, laterVars>>
    \/ \E l \in LoopIds : TimerFire(l) /\ UNCHANGED <<syncVars, schedVars, readVars, upsertVars, laterVars>>
    \/ \E l \in LoopIds : LoopFirst(l) /\ UNCHANGED <<syncVars, schedVars, readVars, upsertVars, laterVars>>
    \/ \E l \in LoopIds : LoopTick(l) /\ UNCHANGED <<syncVars, schedVars, readVars, upsertVars, laterVars>>
    \/ \E l \in LoopIds : LoopStop(l) /\ UNCHANGED <<syncVars, schedVars, readVars, upsertVars, laterVars>>
    \/ \E l \in LoopIds, ok \in BOOLEAN : LoopEndInvoke(l, ok) /\ UNCHANGED <<syncVars, schedVars, readVars, upsertVars, laterVars>>

WorkerSpec == WorkerInit /\ [][WorkerNext]_vars

\* =============================================== claims on WorkerSpec
\* C7: a failed synchronization never stops a worker. Whatever an
\* invocation returns, the run loop goes back to its select and nothing of
\* the worker's lifecycle state changes; only the closed stop channel, seen
\* at the select, ends a loop; a pending tick taken at the select starts the
\* next invocation; the synchronization made inside Start never keeps Start
\* from reaching `go w.run()`.
C7_FailedSyncNeverStopsWorker ==
    [][/\ \A l \in LoopIds :
             /\ loops[l].pc = "invoking" =>
                   (loops'[l].pc \in {"invoking", "select"}
                      /\ (loops'[l].pc = "select" =>
                            <<isRunning, stopClosed, panicked, cpc>>'
                                = <<isRunning, stopClosed, panicked, cpc>>))
             /\ (loops[l].pc # "exited" /\ loops'[l].pc = "exited") =>
                   (loops[l].pc = "select" /\ stopClosed)
             /\ (loops[l].pc = "select" /\ loops[l].tick /\ ~loops'[l].tick
                    /\ loops'[l].pc # "exited") => loops'[l].pc = "invoking"
       /\ \A c \in Goroutines :
             cpc[c] = "start_sync" => (panicked' \/ cpc'[c] \in {"start_sync", "start_go"})
      ]_vars

\* A run loop whose last MaxFails invocations all failed is invoking again.
C7_Witness ==
    \E l \in LoopIds :
        /\ loops[l].fails = MaxFails
        /\ loops[l].pc = "invoking"
        /\ ~stopClosed

\* C8: a Start call made on a worker that is already running (a Start has
\* returned, no Stop was called during or since) never goes past the running
\* test: it sets no flag, makes no synchronization and spawns no run loop.
C8_StartIdempotent ==
    startSeen # "late"

\* A second Start returned at the running test, and there is still one loop.
C8_Witness ==
    /\ startSeen = "noop"
    /\ settled
    /\ Len(loops) = 1
    /\ Starting = {}
    /\ InFlight = 0

\* C9: at most one synchronization of the worker is in progress and at most
\* one of its run loops exists, in every reachable state.
C9_OneInvocationOneLoop ==
    InFlight <= 1 /\ Cardinality(LiveLoops) <= 1

\* C10: in a sequence of Start and Stop calls made one after the other, no
\* Stop call closes the stop channel a second time (no panic).
C10_StopNeverPanics ==
    ~overlap => ~panicked


\* C29: once the stop channel is closed, no run loop starts a
\* synchronization: neither by taking a pending tick at its select nor, for
\* the ISS worker, by the first fetch of a loop that had not yet run.
C29_NoInvocationAfterStop ==
    [][\A l \in LoopIds :
          (stopClosed /\ loops[l].pc # "invoking") => loops'[l].pc # "invoking"
      ]_vars

\* C30: a Start call that goes past the running test makes, for the NASA and
\* Telemetry workers, one synchronization in the caller's goroutine, after
\* raising the flag and before `go w.run()`, and their run loop begins at its
\* select; for the ISS worker it makes none, and the run loop it spawns goes
\* from its first statement into the first fetch, taking no tick for it.
C30_FirstInvocation ==
    [][/\ \A c \in Goroutines :
             /\ (cpc[c] = "start_set" /\ cpc'[c] # "start_set")
                   => cpc'[c] = IF kind = "ISS" THEN "start_go" ELSE "start_sync"
             /\ (cpc[c] # "start_sync" /\ cpc'[c] = "start_sync")
                   => (cpc[c] = "start_set" /\ loops' = loops)
             /\ (cpc[c] = "start_sync" /\ cpc'[c] # "start_sync")
                   => (cpc'[c] = "start_go" /\ loops' = loops)
             /\ (cpc[c] = "start_go" /\ cpc'[c] # "start_go")
                   => /\ cpc'[c] = "idle"
                      /\ loops' = Append(loops,
                                    [pc |-> IF kind = "ISS" THEN "first" ELSE "select",
                                     tick |-> FALSE, fails |-> 0])
       /\ Len(loops') # Len(loops) => \E c \in Goroutines : cpc[c] = "start_go"
       /\ \A l \in LoopIds :
             /\ loops[l].pc = "first" => kind = "ISS"
             /\ (loops[l].pc = "first" /\ loops'[l].pc # "first")
                   => (loops'[l].pc = "invoking" /\ loops'[l].tick = loops[l].tick)
      ]_vars

\* The ISS worker's Start has returned and its run loop is inside its first
\* fetch, no tick having fired; nothing else has happened to the worker.
C30_Witness ==
    /\ kind = "ISS"
    /\ cpc = [c \in Goroutines |-> "idle"]
    /\ isRunning
    /\ ~stopClosed
    /\ loops = <<[pc |-> "invoking", tick |-> FALSE, fails |-> 0]>>
\* ============================================================= SchedSpec
\* The Scheduler of scheduler.go with the workers registered with it. A
\* worker is known by its index in Scheduler.workers; of its run loops only
\* their number matters here, and of the goroutines Start launches only how
\* many are at each statement of which worker's Start. Scheduler.Start and AddWorker run wholly under
\* Scheduler.mu and never block, so each is one step; Scheduler.Stop holds
\* the mutex only to set the flag, and calls every worker's Stop outside it.
Registered == {workers[i] : i \in 1..Len(workers)}
HasFirstSync(k) == k \in {"NASA", "Telemetry"}
\* One goroutine of worker w moves on from statement p to statement q.
GoMove(w, p, q) ==
    [gos EXCEPT ![w] = [r \in GoPcs |->
        IF r = p THEN @[r] - 1 ELSE IF r = q THEN @[r] + 1 ELSE @[r]]]
\* main registers the workers in this order, each if enabled.
KindOrder == <<"ISS", "NASA", "Telemetry">>
Rank(k) == CHOOSE i \in 1..Len(KindOrder) : KindOrder[i] = k
InStop == {c \in Callers : spc[c].pc # "idle"}

\* Scheduler.AddWorker: append under the mutex; no test of any flag.
AddWorker(k) ==
    /\ ~crashed
    /\ Len(workers) < MaxWorkers
    /\ \A r \in Registered : Rank(r) < Rank(k)
    /\ workers' = Append(workers, k)
    /\ UNCHANGED <<stopped, wg, gos, wRunning, wClosed, wLoops, spc, crashed,
                   startCalls, stopCalls, started, rejected, lastStop>>

\* Mutant of SchedStart: Start does not look at the stopped flag.
SchedStartUnchecked ==
    /\ ~crashed
    /\ startCalls < MaxStarts
    /\ startCalls' = startCalls + 1
    /\ wg' = wg + Len(workers)
    /\ gos' = [w \in WorkerIds |->
                  IF w <= Len(workers) THEN [gos[w] EXCEPT !["call"] = @ + 1]
                  ELSE gos[w]]
    /\ started' = TRUE
    /\ UNCHANGED <<workers, stopped, wRunning, wClosed, wLoops, spc, crashed,
                   stopCalls, rejected, lastStop>>

\* Mutant of SchedStart: Start clears the stopped flag and launches the
\* workers again.
SchedStartRevives ==
    /\ ~crashed
    /\ startCalls < MaxStarts
    /\ startCalls' = startCalls + 1
    /\ stopped' = FALSE
    /\ wg' = wg + Len(workers)
    /\ gos' = [w \in WorkerIds |->
                  IF w <= Len(workers) THEN [gos[w] EXCEPT !["call"] = @ + 1]
                  ELSE gos[w]]
    /\ started' = TRUE
    /\ UNCHANGED <<workers, wRunning, wClosed, wLoops, spc, crashed,
                   stopCalls, rejected, lastStop>>

\* Scheduler.Start: under the mutex, return if stopped; otherwise wg.Add(1)
\* and one goroutine per registered worker, then return.
SchedStart ==
    /\ ~crashed
    /\ startCalls < MaxStarts
    /\ startCalls' = startCalls + 1
    /\ IF stopped
       THEN /\ rejected' = TRUE
            /\ UNCHANGED <<wg, gos, started>>
       ELSE /\ wg' = wg + Len(workers)
            /\ gos' = [w \in WorkerIds |->
                          IF w <= Len(workers) THEN [gos[w] EXCEPT !["call"] = @ + 1]
                          ELSE gos[w]]
            /\ started' = TRUE
            /\ UNCHANGED rejected
    /\ UNCHANGED <<workers, stopped, wRunning, wClosed, wLoops, spc, crashed,
                   stopCalls, lastStop>>

\* Mutant of GoStartCall: the workers are started one after the other, each
\* once the Start of those registered before it has returned.
GoStartCallInOrder(w) ==
    /\ ~crashed
    /\ gos[w]["call"] > 0
    /\ \A v \in 1..(w - 1) : \A p \in GoPcs : gos[v][p] = 0
    /\ IF wRunning[w]
       THEN /\ gos' = GoMove(w, "call", "done")
            /\ wg' = wg - 1
       ELSE /\ gos' = GoMove(w, "call", "set")
            /\ wg' = wg
    /\ UNCHANGED <<workers, stopped, wRunning, wClosed, wLoops, spc, crashed,
                   startCalls, stopCalls, started, rejected, lastStop>>

\* The launched goroutine reaches w.Start(): `if w.isRunning { return }`,
\* and on return the deferred wg.Done().
GoStartCall(w) ==
    /\ ~crashed
    /\ gos[w]["call"] > 0
    /\ IF wRunning[w]
       THEN /\ gos' = GoMove(w, "call", "done")
            /\ wg' = wg - 1
       ELSE /\ gos' = GoMove(w, "call", "set")
            /\ wg' = wg
    /\ UNCHANGED <<workers, stopped, wRunning, wClosed, wLoops, spc, crashed,
                   startCalls, stopCalls, started, rejected, lastStop>>

\* w.Start(): `w.isRunning = true`; NASA and Telemetry then make their first
\* synchronization inside Start.
GoStartSet(w) ==
    /\ ~crashed
    /\ gos[w]["set"] > 0
    /\ wRunning' = [wRunning EXCEPT ![w] = TRUE]
    /\ gos' = GoMove(w, "set", IF HasFirstSync(workers[w]) THEN "sync" ELSE "go")
    /\ UNCHANGED <<workers, stopped, wg, wClosed, wLoops, spc, crashed,
                   startCalls, stopCalls, started, rejected, lastStop>>

\* The first synchronization inside Start returns (it may never do so).
GoStartSync(w) ==
    /\ ~crashed
    /\ gos[w]["sync"] > 0
    /\ gos' = GoMove(w, "sync", "go")
    /\ UNCHANGED <<workers, stopped, wg, wRunning, wClosed, wLoops, spc, crashed,
                   startCalls, stopCalls, started, rejected, lastStop>>

\* w.Start(): `go w.run()`, return, and the deferred wg.Done().
GoStartGo(w) ==
    /\ ~crashed
    /\ gos[w]["go"] > 0
    /\ wLoops' = [wLoops EXCEPT ![w] = @ + 1]
    /\ gos' = GoMove(w, "go", "done")
    /\ wg' = wg - 1
    /\ UNCHANGED <<workers, stopped, wRunning, wClosed, spc, crashed,
                   startCalls, stopCalls, started, rejected, lastStop>>

\* run(): `case <-w.stopChan: return`, possible once the channel is closed.
RunExit(w) ==
    /\ ~crashed
    /\ wLoops[w] > 0
    /\ wClosed[w]
    /\ wLoops' = [wLoops EXCEPT ![w] = @ - 1]
    /\ UNCHANGED <<workers, stopped, wg, gos, wRunning, wClosed, spc, crashed,
                   startCalls, stopCalls, started, rejected, lastStop>>

\* Scheduler.Stop: `s.mu.Lock(); s.stopped = true; s.mu.Unlock()`.
SchedStopMark(c) ==
    /\ ~crashed
    /\ spc[c].pc = "idle"
    /\ stopCalls < MaxStops
    /\ stopCalls' = stopCalls + 1
    /\ stopped' = TRUE
    /\ spc' = [spc EXCEPT ![c] = [pc |-> "range", i |-> 0, n |-> 0]]
    /\ UNCHANGED <<workers, wg, gos, wRunning, wClosed, wLoops, crashed,
                   startCalls, started, rejected, lastStop>>

\* Scheduler.Stop: `for _, worker := range s.workers` evaluates the slice.
SchedStopRange(c) ==
    /\ ~crashed
    /\ spc[c].pc = "range"
    /\ spc' = [spc EXCEPT ![c] =
                  IF Len(workers) = 0
                  THEN [pc |-> "wait", i |-> 0, n |-> 0]
                  ELSE [pc |-> "w_call", i |-> 1, n |-> Len(workers)]]
    /\ UNCHANGED <<workers, stopped, wg, gos, wRunning, wClosed, wLoops, crashed,
                   startCalls, stopCalls, started, rejected, lastStop>>

\* Where Scheduler.Stop goes after the Stop of worker number i has returned.
AfterWorker(f) ==
    IF f.i < f.n
    THEN [pc |-> "w_call", i |-> f.i + 1, n |-> f.n]
    ELSE [pc |-> "wait", i |-> 0, n |-> 0]

\* worker.Stop(): `if !w.isRunning { return }`.
SchedStopWCall(c) ==
    /\ ~crashed
    /\ spc[c].pc = "w_call"
    /\ spc' = [spc EXCEPT ![c] =
                  IF wRunning[@.i] THEN [@ EXCEPT !.pc = "w_close"] ELSE AfterWorker(@)]
    /\ UNCHANGED <<workers, stopped, wg, gos, wRunning, wClosed, wLoops, crashed,
                   startCalls, stopCalls, started, rejected, lastStop>>

\* worker.Stop(): `close(w.stopChan)`; closing a closed channel panics.
SchedStopWClose(c) ==
    /\ ~crashed
    /\ spc[c].pc = "w_close"
    /\ IF wClosed[spc[c].i]
       THEN /\ crashed' = TRUE
            /\ UNCHANGED <<wClosed, spc>>
       ELSE /\ wClosed' = [wClosed EXCEPT ![spc[c].i] = TRUE]
            /\ spc' = [spc EXCEPT ![c].pc = "w_clear"]
            /\ UNCHANGED crashed
    /\ UNCHANGED <<workers, stopped, wg, gos, wRunning, wLoops,
                   startCalls, stopCalls, started, rejected, lastStop>>

\* worker.Stop(): `w.isRunning = false` and return.
SchedStopWClear(c) ==
    /\ ~crashed
    /\ spc[c].pc = "w_clear"
    /\ wRunning' = [wRunning EXCEPT ![spc[c].i] = FALSE]
    /\ spc' = [spc EXCEPT ![c] = AfterWorker(@)]
    /\ UNCHANGED <<workers, stopped, wg, gos, wClosed, wLoops, crashed,
                   startCalls, stopCalls, started, rejected, lastStop>>

\* Scheduler.Stop: `case <-done`, closed once wg.Wait() has returned.
SchedStopDone(c) ==
    /\ ~crashed
    /\ spc[c].pc = "wait"
    /\ wg = 0
    /\ spc' = [spc EXCEPT ![c].pc = "idle"]
    /\ lastStop' = "graceful"
    /\ UNCHANGED <<workers, stopped, wg, gos, wRunning, wClosed, wLoops, crashed,
                   startCalls, stopCalls, started, rejected>>

\* Mutant of SchedStopTimeout: Stop waits for the WaitGroup with no timeout.
SchedStopNoTimeout(c) ==
    /\ ~crashed
    /\ spc[c].pc = "wait"
    /\ wg = 0
    /\ spc' = [spc EXCEPT ![c].pc = "idle"]
    /\ lastStop' = "timeout"
    /\ UNCHANGED <<workers, stopped, wg, gos, wRunning, wClosed, wLoops, crashed,
                   startCalls, stopCalls, started, rejected>>

\* Scheduler.Stop: `case <-time.After(10 * time.Second)`.
SchedStopTimeout(c) ==
    /\ ~crashed
    /\ spc[c].pc = "wait"
    /\ spc' = [spc EXCEPT ![c].pc = "idle"]
    /\ lastStop' = "timeout"
    /\ UNCHANGED <<workers, stopped, wg, gos, wRunning, wClosed, wLoops, crashed,
                   startCalls, stopCalls, started, rejected>>

SchedInit ==
    /\ dom = "ISS"
    /\ SyncIdle
    /\ kind = "ISS"
    /\ WorkerIdle
    /\ SchedIdle
    /\ ReadIdle
    /\ UpsertIdle
    /\ LaterIdle
    /\ rop = "GetLastPosition"

SchedNext ==
    \/ \E k \in Kinds : AddWorker(k) /\ UNCHANGED <<syncVars, workerVars, readVars, upsertVars, laterVars>>
    \/ SchedStart /\ UNCHANGED <<syncVars, workerVars, readVars, upsertVars, laterVars>>
    \/ \E w \in WorkerIds : GoStartCall(w) /\ UNCHANGED <<syncVars, workerVars, readVars, upsertVars, laterVars>>
    \/ \E w \in WorkerIds : GoStartSet(w) /\ UNCHANGED <<syncVars, workerVars, readVars, upsertVars, laterVars>>
    \/ \E w \in WorkerIds : GoStartSync(w) /\ UNCHANGED <<syncVars, workerVars, readVars, upsertVars, laterVars>>
    \/ \E w \in WorkerIds : GoStartGo(w) /\ UNCHANGED <<syncVars, workerVars, readVars, upsertVars, laterVars>>
    \/ \E w \in WorkerIds : RunExit(w) /\ UNCHANGED <<syncVars, workerVars, readVars, upsertVars, laterVars>>
    \/ \E c \in Callers : SchedStopMark(c) /\ UNCHANGED <<syncVars, workerVars, readVars, upsertVars, laterVars>>
    \/ \E c \in Callers : SchedStopRange(c) /\ UNCHANGED <<syncVars, workerVars, readVars, upsertVars, laterVars>>
    \/ \E c \in Callers : SchedStopWCall(c) /\ UNCHANGED <<syncVars, workerVars, readVars, upsertVars, laterVars>>
    \/ \E c \in Callers : SchedStopWClose(c) /\ UNCHANGED <<syncVars, workerVars, readVars, upsertVars, laterVars>>
    \/ \E c \in Callers : SchedStopWClear(c) /\ UNCHANGED <<syncVars, workerVars, readVars, upsertVars, laterVars>>
    \/ \E c \in Callers : SchedStopDone(c) /\ UNCHANGED <<syncVars, workerVars, readVars, upsertVars, laterVars>>
    \/ \E c \in Callers : SchedStopTimeout(c) /\ UNCHANGED <<syncVars, workerVars, readVars, upsertVars, laterVars>>

SchedSpec == SchedInit /\ [][SchedNext]_vars

\* The steps of a Stop call in progress are taken sooner or later, and the
\* ten-second timer fires; nothing is assumed of the launched goroutines.
SchedFairSpec ==
    /\ SchedSpec
    /\ \A c \in Callers :
          /\ WF_vars(SchedStopRange(c) /\ UNCHANGED <<syncVars, workerVars, readVars, upsertVars, laterVars>>)
          /\ WF_vars(SchedStopWCall(c) /\ UNCHANGED <<syncVars, workerVars, readVars, upsertVars, laterVars>>)
          /\ WF_vars(SchedStopWClose(c) /\ UNCHANGED <<syncVars, workerVars, readVars, upsertVars, laterVars>>)
          /\ WF_vars(SchedStopWClear(c) /\ UNCHANGED <<syncVars, workerVars, readVars, upsertVars, laterVars>>)
          /\ WF_vars(SchedStopTimeout(c) /\ UNCHANGED <<syncVars, workerVars, readVars, upsertVars, laterVars>>)

\* =============================================== claims on SchedSpec
\* C11: however many Stop calls are made on the scheduler, one after the
\* other or at once, no worker's stop channel is closed twice: the process
\* never dies of closing a closed channel.
C11_SecondStopHarmless ==
    ~crashed

\* C12: every Scheduler.Stop call returns, through the done branch or the
\* timeout branch of its select, whatever the launched goroutines do (a
\* Start stuck in its first synchronization included), unless the process
\* has died meanwhile.
C12_StopAlwaysReturns ==
    \A c \in Callers : (spc[c].pc # "idle") ~> (spc[c].pc = "idle" \/ crashed)

\* A Stop returned by the timeout while a worker's Start was still inside
\* its first synchronization.
C12_Witness ==
    /\ lastStop = "timeout"
    /\ InStop = {}
    /\ ~crashed
    /\ \E w \in WorkerIds : gos[w]["sync"] > 0

\* C13: a Scheduler.Start call made once the scheduler is marked stopped
\* launches no goroutine, adds nothing to the WaitGroup and starts no worker.
C13_StartAfterStopRejected ==
    [][(stopped /\ startCalls' # startCalls) =>
          (rejected' /\ gos' = gos /\ wg' = wg /\ wRunning' = wRunning /\ wLoops' = wLoops)
      ]_vars

\* Start was called after Stop on a scheduler with workers, and nothing was
\* ever launched.
C13_Witness ==
    /\ rejected
    /\ Len(workers) = MaxWorkers
    /\ lastStop # "none"
    /\ gos = NoGos
    /\ \A w \in WorkerIds : ~wRunning[w] /\ wLoops[w] = 0

\* C14: an AddWorker call made after Scheduler.Start or after Scheduler.Stop
\* leaves Scheduler.workers as it was.
C14_LateAddWorkerRejected ==
    [][(started \/ stopped) => workers' = workers]_vars

\* C15: once a Scheduler.Stop has returned and no other is in progress,
\* every run loop still alive has had its stop channel closed, so that it
\* exits at its next select.
C15_StopStopsEveryWorker ==
    (lastStop # "none" /\ InStop = {}) =>
        \A w \in WorkerIds : wLoops[w] > 0 => wClosed[w]

\* C16: Scheduler.Start can always be called and return, whatever the
\* workers are doing, and every launched goroutine can take its next step
\* whatever the other goroutines are doing: a worker stuck in the first
\* synchronization of its Start holds back neither Start nor another worker.
C16_StartFireAndForget ==
    ~crashed =>
        /\ startCalls < MaxStarts => ENABLED SchedStart
        /\ \A w \in WorkerIds :
              /\ gos[w]["call"] > 0 => ENABLED GoStartCall(w)
              /\ gos[w]["set"] > 0 => ENABLED GoStartSet(w)
              /\ gos[w]["go"] > 0 => ENABLED GoStartGo(w)

\* Start has returned; one worker's Start is inside its first
\* synchronization while another worker's run loop is already running.
C16_Witness ==
    /\ ~stopped
    /\ startCalls = 1
    /\ \E v, w \in WorkerIds :
          /\ v # w
          /\ gos[v]["sync"] = 1
          /\ gos[w] = NoGos[w]
          /\ wLoops[w] = 1


\* C28: when a Scheduler.Stop call returns through the done branch of its
\* select ("stopped gracefully"), no run loop of any worker is alive and no
\* worker is inside a synchronization. Stated for the plainest shutdown:
\* every launched Start has returned and every run loop alive has had its
\* stop channel closed.
C28_GracefulMeansAcknowledged ==
    [][\A c \in Callers :
          (spc[c].pc = "wait" /\ spc'[c].pc = "idle" /\ lastStop' = "graceful"
              /\ gos = NoGos /\ \A w \in WorkerIds : wLoops[w] > 0 => wClosed[w])
            => \A w \in WorkerIds : wLoops'[w] = 0 /\ gos'[w]["sync"] = 0
      ]_vars
\* Scheduler.IsRunning: `return !s.stopped`, under the read lock.
IsRunning == ~stopped

\* C37: IsRunning returns true exactly when Stop has never been called: on
\* the fresh scheduler, before and after Start, and never again once a Stop
\* has been called, whatever Start calls follow.
C37_IsRunningUntilStop ==
    IsRunning <=> (stopCalls = 0)

\* Stop has been called, a Start called after it has returned at the stopped
\* test, and IsRunning is false.
C37_Witness ==
    /\ ~IsRunning
    /\ rejected
    /\ stopCalls > 0
    /\ \A c \in Callers : spc[c].pc = "idle"

\* ============================================================== ReadSpec
\* The read operations of issService and nasaService against the Redis
\* cache and the repositories. A read runs to completion in one step; the
\* outcome of each call it makes to a collaborator (cache lookup, repository
\* read, cache write, upstream client) is an input of the step. A JSON text
\* is the one-element sequence holding the value it encodes, the empty text
\* (Go's "") the empty sequence; a nil pointer is the empty sequence too.
NoText == <<>>
Marshal(v) == <<v>>
Unmarshal(s) == s[1]
RLive(c, k, t) == c[k].val # NoText /\ c[k].exp > t

\* cacheRepository.Get: a missing key is ("", nil), a store failure ("", err).
Get(c, k, t, up) ==
    IF ~up THEN [val |-> NoText, err |-> TRUE]
    ELSE IF RLive(c, k, t) THEN [val |-> c[k].val, err |-> FALSE]
    ELSE [val |-> NoText, err |-> FALSE]

\* cacheRepository.GetJSON: a missing key returns nil and leaves dest as it
\* was; a store failure returns the error; otherwise dest is decoded.
GetJSON(c, k, t, up, dest) ==
    IF ~up THEN [val |-> dest, err |-> TRUE]
    ELSE IF RLive(c, k, t) THEN [val |-> Unmarshal(c[k].val), err |-> FALSE]
    ELSE [val |-> dest, err |-> FALSE]

\* haversineDistance, in metres, for points next to (0, 0): one degree along
\* a meridian or along the equator is 111195 m, a step of one degree in both
\* 157250 m.
Abs(x) == IF x < 0 THEN -x ELSE x
haversineDistance(lat1, lon1, lat2, lon2) ==
    IF lat1 = lat2 /\ lon1 = lon2 THEN 0
    ELSE IF lon1 = lon2 THEN (MetresPerDegree * Abs(lat2 - lat1)) \div UnitsPerDegree
    ELSE IF lat1 = lat2 THEN (MetresPerDegree * Abs(lon2 - lon1)) \div UnitsPerDegree
    ELSE DiagonalMetres

\* The zero value of models.ISSTrend, which is also the neutral trend.
ZeroTrend ==
    [movement |-> FALSE, delta |-> 0, dt |-> 0, velocity |-> <<>>,
     from |-> <<>>, to |-> <<>>]

\* Mutant of calculateTrend: any distance above zero counts as movement.
calculateTrendAnyDistance(current, previous) ==
    LET deltaM == haversineDistance(previous.pos.lat, previous.pos.lon,
                                    current.pos.lat, current.pos.lon)
    IN  [movement |-> deltaM > 0,
         delta |-> deltaM,
         dt |-> current.at - previous.at,
         velocity |-> IF current.pos.vel > 0
                      THEN <<(current.pos.vel * 36) \div 10>> ELSE <<>>,
         from |-> <<[lat |-> previous.pos.lat, lon |-> previous.pos.lon,
                     at |-> previous.at]>>,
         to |-> <<[lat |-> current.pos.lat, lon |-> current.pos.lon,
                   at |-> current.at]>>]

\* issService.calculateTrend(current, previous).
calculateTrend(current, previous) ==
    LET deltaM == haversineDistance(previous.pos.lat, previous.pos.lon,
                                    current.pos.lat, current.pos.lon)
    IN  [movement |-> deltaM > MovementMetres,
         delta |-> deltaM,
         dt |-> current.at - previous.at,
         velocity |-> IF current.pos.vel > 0
                      THEN <<(current.pos.vel * 36) \div 10>> ELSE <<>>,
         from |-> <<[lat |-> previous.pos.lat, lon |-> previous.pos.lon,
                     at |-> previous.at]>>,
         to |-> <<[lat |-> current.pos.lat, lon |-> current.pos.lon,
                   at |-> current.at]>>]

\* issRepository.GetLastN(n): the n newest samples, newest first.
GetLastN(ss, n) ==
    [i \in 1..(IF Len(ss) < n THEN Len(ss) ELSE n) |-> ss[Len(ss) + 1 - i]]

\* issRepository.GetSince / osdrRepository.GetPaginated(1, 20): newest first.
NewestFirst(ss) == [i \in 1..Len(ss) |-> ss[Len(ss) + 1 - i]]

\* What a read hands back to the action that runs it: the value and error it
\* returns, whether it was served from the cache, whether it read the
\* repository, the text it wrote to the cache (none: NoText) and the number
\* of upstream calls it made.
Outcome(v, e, h, r, w, n) ==
    [val |-> v, err |-> e, hit |-> h, read |-> r, write |-> w, calls |-> n]

\* Mutant of GetLastPositionOutcome: a failing cache lookup is returned to
\* the caller as an error.
GetLastPositionCacheStrict(c, t, ss, gUp, rUp) ==
    LET got == Get(c, LastPositionKey, t, gUp)
    IN  IF got.err
        THEN Outcome([payload |-> NoText, at |-> 0], TRUE, FALSE, FALSE, NoText, 0)
        ELSE IF got.val # NoText
        THEN Outcome([payload |-> got.val, at |-> t], FALSE, TRUE, FALSE, NoText, 0)
        ELSE IF ~rUp \/ ss = <<>>
        THEN Outcome([payload |-> NoText, at |-> 0], TRUE, FALSE, TRUE, NoText, 0)
        ELSE Outcome([payload |-> Marshal(ss[Len(ss)].pos), at |-> ss[Len(ss)].at],
                     FALSE, FALSE, TRUE, Marshal(ss[Len(ss)].pos), 0)

\* issService.GetLastPosition.
GetLastPositionOutcome(c, t, ss, gUp, rUp) ==
    LET got == Get(c, LastPositionKey, t, gUp)
    IN  IF ~got.err /\ got.val # NoText
        THEN Outcome([payload |-> got.val, at |-> t], FALSE, TRUE, FALSE, NoText, 0)
        ELSE IF ~rUp \/ ss = <<>>
        THEN Outcome([payload |-> NoText, at |-> 0], TRUE, FALSE, TRUE, NoText, 0)
        ELSE Outcome([payload |-> Marshal(ss[Len(ss)].pos), at |-> ss[Len(ss)].at],
                     FALSE, FALSE, TRUE, Marshal(ss[Len(ss)].pos), 0)

\* Mutant of GetTrendOutcome: fewer than two samples is reported as an error.
GetTrendNeedsTwo(c, t, ss, gUp, rUp) ==
    LET got == GetJSON(c, TrendKey, t, gUp, ZeroTrend)
    IN  IF ~got.err
        THEN Outcome(got.val, FALSE, TRUE, FALSE, NoText, 0)
        ELSE IF ~rUp \/ Len(GetLastN(ss, 2)) < 2
        THEN Outcome(ZeroTrend, TRUE, FALSE, TRUE, NoText, 0)
        ELSE LET calculatedTrend == calculateTrend(GetLastN(ss, 2)[1], GetLastN(ss, 2)[2])
             IN  Outcome(calculatedTrend, FALSE, FALSE, TRUE, Marshal(calculatedTrend), 0)

\* issService.GetTrend (limit <= 0, hence 240).
GetTrendOutcome(c, t, ss, gUp, rUp) ==
    LET got == GetJSON(c, TrendKey, t, gUp, ZeroTrend)
    IN  IF ~got.err
        THEN Outcome(got.val, FALSE, TRUE, FALSE, NoText, 0)
        ELSE IF ~rUp
        THEN Outcome(ZeroTrend, TRUE, FALSE, TRUE, NoText, 0)
        ELSE IF Len(GetLastN(ss, 2)) < 2
        THEN Outcome(ZeroTrend, FALSE, FALSE, TRUE, NoText, 0)
        ELSE LET calculatedTrend == calculateTrend(GetLastN(ss, 2)[1], GetLastN(ss, 2)[2])
             IN  Outcome(calculatedTrend, FALSE, FALSE, TRUE, Marshal(calculatedTrend), 0)

\* Mutant of GetPositionsHistoryOutcome: a miss first refreshes the
\* repository from the upstream source.
GetPositionsHistoryRefreshing(c, t, ss, gUp, rUp) ==
    LET got == GetJSON(c, HistoryKey, t, gUp, <<>>)
    IN  IF ~got.err /\ Len(got.val) > 0
        THEN Outcome(got.val, FALSE, TRUE, FALSE, NoText, 0)
        ELSE IF ~rUp
        THEN Outcome(<<>>, TRUE, FALSE, TRUE, NoText, 1)
        ELSE Outcome(NewestFirst(ss), FALSE, FALSE, TRUE,
                     IF Len(ss) > 0 THEN Marshal(NewestFirst(ss)) ELSE NoText, 1)

\* issService.GetPositionsHistory (hours <= 0, hence 24): every sample of the
\* model is younger than 24 hours.
GetPositionsHistoryOutcome(c, t, ss, gUp, rUp) ==
    LET got == GetJSON(c, HistoryKey, t, gUp, <<>>)
    IN  IF ~got.err /\ Len(got.val) > 0
        THEN Outcome(got.val, FALSE, TRUE, FALSE, NoText, 0)
        ELSE IF ~rUp
        THEN Outcome(<<>>, TRUE, FALSE, TRUE, NoText, 0)
        ELSE Outcome(NewestFirst(ss), FALSE, FALSE, TRUE,
                     IF Len(ss) > 0 THEN Marshal(NewestFirst(ss)) ELSE NoText, 0)

\* Mutant of GetOSDRListOutcome: a miss is served from the repository and
\* the cache is left as it was.
GetOSDRListNoPopulate(c, t, its, gUp, rUp) ==
    LET got == GetJSON(c, OSDRListKey, t, gUp, <<>>)
    IN  IF ~got.err /\ Len(got.val) > 0
        THEN Outcome(got.val, FALSE, TRUE, FALSE, NoText, 0)
        ELSE IF ~rUp
        THEN Outcome(<<>>, TRUE, FALSE, TRUE, NoText, 0)
        ELSE Outcome(NewestFirst(its), FALSE, FALSE, TRUE, NoText, 0)

\* nasaService.GetOSDRList(1, 20).
GetOSDRListOutcome(c, t, its, gUp, rUp) ==
    LET got == GetJSON(c, OSDRListKey, t, gUp, <<>>)
    IN  IF ~got.err /\ Len(got.val) > 0
        THEN Outcome(got.val, FALSE, TRUE, FALSE, NoText, 0)
        ELSE IF ~rUp
        THEN Outcome(<<>>, TRUE, FALSE, TRUE, NoText, 0)
        ELSE Outcome(NewestFirst(its), FALSE, FALSE, TRUE, Marshal(NewestFirst(its)), 0)

\* nasaService.GetLatestAPOD / GetLatestNEO: look the key `readKey` up; on a
\* miss run FetchAndStoreAPOD / FetchAndStoreNEO, which calls the upstream
\* client and caches its result under `storeKey`, then look `readKey` up
\* again. `c2` is the cache as the second lookup finds it.
GetLatestOutcome(c, c2, t, readKey, fresh, gUp, apiOk, sUp, gUp2) ==
    LET got == GetJSON(c, readKey, t, gUp, NilMap)
        again == GetJSON(c2, readKey, t, gUp2, got.val)
    IN  IF ~got.err /\ got.val # NilMap
        THEN Outcome(got.val, FALSE, TRUE, FALSE, NoText, 0)
        ELSE IF ~apiOk \/ ~sUp
        THEN Outcome(NilMap, TRUE, FALSE, FALSE, NoText, 1)
        ELSE IF again.err
        THEN Outcome(NilMap, TRUE, FALSE, FALSE, Marshal(fresh), 1)
        ELSE Outcome(again.val, FALSE, FALSE, FALSE, Marshal(fresh), 1)

\* The read `op` ends with outcome `out`, having written `out.write`, if any,
\* under `key` with expiry `ttl`, the cache write succeeding or not (sUp).
Finish(op, out, key, ttl, gUp, rUp, sUp) ==
    /\ rop = op
    /\ ret.op = "none"
    /\ readFetches + out.calls <= MaxReadFetches
    /\ readFetches' = readFetches + out.calls
    /\ rcache' = IF out.write # NoText
                 THEN CacheSet(rcache, key, out.write, ttl, rnow, sUp) ELSE rcache
    /\ ret' = [op |-> op, val |-> out.val, err |-> out.err, hit |-> out.hit,
               read |-> out.read, getUp |-> gUp, repoUp |-> rUp, setUp |-> sUp]
    /\ UNCHANGED <<rnow, samples, items, rop>>

\* The read hands its result to its caller.
ReadReturn ==
    /\ ret.op # "none"
    /\ ret' = NoRet
    /\ UNCHANGED <<rnow, rcache, samples, items, readFetches, rop>>

GetLastPosition(gUp, rUp, sUp) ==
    Finish("GetLastPosition", GetLastPositionOutcome(rcache, rnow, samples, gUp, rUp),
           LastPositionKey, ISSPositionTTL, gUp, rUp, sUp)

GetTrend(gUp, rUp, sUp) ==
    Finish("GetTrend", GetTrendOutcome(rcache, rnow, samples, gUp, rUp),
           TrendKey, TrendTTL, gUp, rUp, sUp)

GetPositionsHistory(gUp, rUp, sUp) ==
    Finish("GetPositionsHistory",
           GetPositionsHistoryOutcome(rcache, rnow, samples, gUp, rUp),
           HistoryKey, HistoryTTL, gUp, rUp, sUp)

GetOSDRList(gUp, rUp, sUp) ==
    Finish("GetOSDRList", GetOSDRListOutcome(rcache, rnow, items, gUp, rUp),
           OSDRListKey, OSDRListTTL, gUp, rUp, sUp)

GetLatestAPOD(gUp, apiOk, sUp, gUp2) ==
    Finish("GetLatestAPOD",
           GetLatestOutcome(rcache,
                            CacheSet(rcache, APODKey, Marshal("apod"), APODCacheTTL, rnow, sUp),
                            rnow, APODKey, "apod", gUp, apiOk, sUp, gUp2),
           APODKey, APODCacheTTL, gUp, TRUE, sUp)

\* GetLatestNEO (days = 7) looks "nasa:neo:7d" up; FetchAndStoreNEO stores
\* under "nasa:neo:last_week".
GetLatestNEO(gUp, apiOk, sUp, gUp2) ==
    Finish("GetLatestNEO",
           GetLatestOutcome(rcache,
                            CacheSet(rcache, NEOStoreKey, Marshal("neo"), NEOCacheTTL, rnow, sUp),
                            rnow, NEOReadKey, "neo", gUp, apiOk, sUp, gUp2),
           NEOStoreKey, NEOCacheTTL, gUp, TRUE, sUp)

\* The writes below happen between reads, and only those that bear on the
\* read the behaviour exercises are taken.
\* A successful FetchAndStoreISSData: one more sample in the repository, and
\* its payload cached as the last position if the cache write succeeds.
StoreSample(p, sUp) ==
    /\ rop \in ISSReads
    /\ ret.op = "none"
    /\ Len(samples) < MaxSamples
    /\ IF samples = <<>> THEN TRUE ELSE samples[Len(samples)].at < rnow
    /\ samples' = Append(samples, [pos |-> p, at |-> rnow])
    /\ rcache' = CacheSet(rcache, LastPositionKey, Marshal(p), ISSPositionTTL, rnow, sUp)
    /\ UNCHANGED <<rnow, items, readFetches, ret, rop>>

\* A successful FetchAndStoreOSDR: one more item in the repository.
StoreItem ==
    /\ rop = "GetOSDRList"
    /\ ret.op = "none"
    /\ Len(items) < MaxItems
    /\ items' = Append(items, Len(items) + 1)
    /\ UNCHANGED <<rnow, rcache, samples, readFetches, ret, rop>>

\* Time passes; Redis drops the keys whose expiry instant has passed.
ReadAdvance ==
    /\ ret.op = "none"
    /\ \E d \in ReadSteps : rnow + d <= MaxReadTime /\ rnow' = rnow + d
    /\ rcache' = [k \in ReadKeys |-> IF rcache[k].exp > rnow' THEN rcache[k] ELSE RAbsent]
    /\ UNCHANGED <<samples, items, readFetches, ret, rop>>

ReadInit ==
    /\ dom = "ISS"
    /\ SyncIdle
    /\ kind = "ISS"
    /\ WorkerIdle
    /\ SchedIdle
    /\ ReadIdle
    /\ UpsertIdle
    /\ LaterIdle
    /\ rop \in AllReads

ReadNext ==
    \/ \E gUp, rUp, sUp \in BOOLEAN :
          GetLastPosition(gUp, rUp, sUp) /\ UNCHANGED <<syncVars, workerVars, schedVars, upsertVars, laterVars>>
    \/ \E gUp, rUp, sUp \in BOOLEAN :
          GetTrend(gUp, rUp, sUp) /\ UNCHANGED <<syncVars, workerVars, schedVars, upsertVars, laterVars>>
    \/ \E gUp, rUp, sUp \in BOOLEAN :
          GetPositionsHistory(gUp, rUp, sUp) /\ UNCHANGED <<syncVars, workerVars, schedVars, upsertVars, laterVars>>
    \/ \E gUp, rUp, sUp \in BOOLEAN :
          GetOSDRList(gUp, rUp, sUp) /\ UNCHANGED <<syncVars, workerVars, schedVars, upsertVars, laterVars>>
    \/ \E gUp, apiOk, sUp, gUp2 \in BOOLEAN :
          GetLatestAPOD(gUp, apiOk, sUp, gUp2) /\ UNCHANGED <<syncVars, workerVars, schedVars, upsertVars, laterVars>>
    \/ \E gUp, apiOk, sUp, gUp2 \in BOOLEAN :
          GetLatestNEO(gUp, apiOk, sUp, gUp2) /\ UNCHANGED <<syncVars, workerVars, schedVars, upsertVars, laterVars>>
    \/ \E p \in Positions, sUp \in BOOLEAN :
          StoreSample(p, sUp) /\ UNCHANGED <<syncVars, workerVars, schedVars, upsertVars, laterVars>>
    \/ StoreItem /\ UNCHANGED <<syncVars, workerVars, schedVars, upsertVars, laterVars>>
    \/ ReadAdvance /\ UNCHANGED <<syncVars, workerVars, schedVars, upsertVars, laterVars>>
    \/ ReadReturn /\ UNCHANGED <<syncVars, workerVars, schedVars, upsertVars, laterVars>>

ReadSpec == ReadInit /\ [][ReadNext]_vars

\* =============================================== claims on ReadSpec
\* This step is the read operation `op`.
IsRead(op) == ret.op = "none" /\ ret'.op = op

C18_CacheAside ==
    [][/\ (IsRead("GetLastPosition") /\ ret'.getUp /\ RLive(rcache, LastPositionKey, rnow))
            => /\ ret'.hit /\ ~ret'.read /\ ~ret'.err
               /\ ret'.val.payload = rcache[LastPositionKey].val
               /\ rcache' = rcache
       /\ (IsRead("GetLastPosition") /\ ret'.getUp /\ ~RLive(rcache, LastPositionKey, rnow)
              /\ ret'.repoUp /\ ret'.setUp /\ samples # <<>>)
            => /\ ~ret'.hit /\ ret'.read /\ ~ret'.err
               /\ ret'.val = [payload |-> Marshal(samples[Len(samples)].pos),
                              at |-> samples[Len(samples)].at]
               /\ rcache' = [rcache EXCEPT ![LastPositionKey] =
                                [val |-> ret'.val.payload, exp |-> rnow + ISSPositionTTL]]
       /\ (IsRead("GetOSDRList") /\ ret'.getUp /\ RLive(rcache, OSDRListKey, rnow)
              /\ Len(Unmarshal(rcache[OSDRListKey].val)) > 0)
            => /\ ret'.hit /\ ~ret'.read /\ ~ret'.err
               /\ ret'.val = Unmarshal(rcache[OSDRListKey].val)
               /\ rcache' = rcache
       /\ (IsRead("GetOSDRList") /\ ret'.getUp /\ ~RLive(rcache, OSDRListKey, rnow)
              /\ ret'.repoUp /\ ret'.setUp)
            => /\ ~ret'.hit /\ ret'.read /\ ~ret'.err
               /\ ret'.val = NewestFirst(items)
               /\ rcache' = [rcache EXCEPT ![OSDRListKey] =
                                [val |-> Marshal(ret'.val), exp |-> rnow + OSDRListTTL]]
      ]_vars

\* GetLastPosition missed the cache after the cached position had expired,
\* and put the repository's latest sample back into the cache.
C18_Witness ==
    /\ ret.op = "GetLastPosition"
    /\ ~ret.hit
    /\ ret.read
    /\ ~ret.err
    /\ rnow = ISSPositionTTL
    /\ samples # <<>>
    /\ samples[Len(samples)].at = 0
    /\ rcache[LastPositionKey] = [val |-> ret.val.payload, exp |-> rnow + ISSPositionTTL]

\* C19: GetTrend, the trend key absent, the cache and the repository
\* working and two samples or more in the repository, returns the trend
\* calculated from the newest sample and the one before it, and stores it
\* under the trend key.
C19_TrendComputedOnMiss ==
    [][(IsRead("GetTrend") /\ ~RLive(rcache, TrendKey, rnow) /\ Len(samples) >= 2
           /\ ret'.getUp /\ ret'.repoUp /\ ret'.setUp)
         => /\ ~ret'.err
            /\ ret'.val = calculateTrend(samples[Len(samples)], samples[Len(samples) - 1])
            /\ rcache'[TrendKey] = [val |-> Marshal(ret'.val), exp |-> rnow + TrendTTL]
      ]_vars

\* C20: GetTrend with no sample or one sample in the repository, whatever
\* the cache holds and whether or not it answers, returns the neutral trend
\* and no error, the repository being readable.
C20_NeutralTrendBelowTwoSamples ==
    [][(IsRead("GetTrend") /\ Len(samples) < 2 /\ ret'.repoUp)
         => (~ret'.err /\ ret'.val = ZeroTrend)
      ]_vars

\* GetTrend with one sample and the cache failing went to the repository
\* and returned the neutral trend.
C20_Witness ==
    /\ ret.op = "GetTrend"
    /\ Len(samples) = 1
    /\ ~ret.getUp
    /\ ret.repoUp
    /\ ret.read
    /\ ~ret.err
    /\ ret.val = ZeroTrend


\* What the repository holds for the read `op`: the value the read returns
\* when it is not served from the cache.
RepositoryData(op) ==
    IF op = "GetLastPosition"
    THEN [payload |-> Marshal(samples[Len(samples)].pos), at |-> samples[Len(samples)].at]
    ELSE IF op = "GetTrend"
    THEN IF Len(samples) < 2 THEN ZeroTrend
         ELSE calculateTrend(samples[Len(samples)], samples[Len(samples) - 1])
    ELSE IF op = "GetPositionsHistory" THEN NewestFirst(samples)
    ELSE NewestFirst(items)

\* C21: when the cache lookup fails, GetLastPosition, GetOSDRList, GetTrend
\* and GetPositionsHistory read the repository and return what it holds
\* without an error, whether or not the cache write that follows succeeds;
\* the repository read succeeding (for GetLastPosition, a row exists).
C21_CacheFailureIsMiss ==
    [][\A op \in ISSReads \cup {"GetOSDRList"} :
          (IsRead(op) /\ ~ret'.getUp /\ ret'.repoUp
              /\ (op = "GetLastPosition" => samples # <<>>))
            => /\ ~ret'.err
               /\ ~ret'.hit
               /\ ret'.read
               /\ ret'.val = RepositoryData(op)
      ]_vars

\* GetPositionsHistory found the cache failing on the lookup and on the
\* write, and returned the two samples of the repository.
C21_Witness ==
    /\ ret.op = "GetPositionsHistory"
    /\ ~ret.getUp
    /\ ~ret.setUp
    /\ ret.repoUp
    /\ ~ret.err
    /\ Len(ret.val) = 2
    /\ ~RLive(rcache, HistoryKey, rnow)


\* The destination value the reads hand to GetJSON for key k: the zero
\* trend, a nil slice, a nil map.
DestOf(k) ==
    IF k = TrendKey THEN ZeroTrend
    ELSE IF k \in {APODKey, NEOReadKey, NEOStoreKey} THEN NilMap
    ELSE <<>>

\* C26: for every key the cache holds, what Get and GetJSON hand their
\* caller (value and error; for GetJSON the destination and the error)
\* differs between the key present, the key absent and the store failing:
\* absent is no error, the failing store is an error, and neither looks like
\* the present value.
C26_AbsentDistinguishable ==
    \A k \in ReadKeys :
        RLive(rcache, k, rnow) =>
            LET gone == [rcache EXCEPT ![k] = RAbsent] IN
            /\ ~Get(gone, k, rnow, TRUE).err
            /\ Get(rcache, k, rnow, FALSE).err
            /\ Get(gone, k, rnow, TRUE) # Get(rcache, k, rnow, TRUE)
            /\ ~GetJSON(gone, k, rnow, TRUE, DestOf(k)).err
            /\ GetJSON(rcache, k, rnow, FALSE, DestOf(k)).err
            /\ GetJSON(gone, k, rnow, TRUE, DestOf(k))
                   # GetJSON(rcache, k, rnow, TRUE, DestOf(k))
\* C33: GetLatestNEO reads what FetchAndStoreNEO stores: with the data
\* FetchAndStoreNEO wrote still in the cache and the cache answering,
\* GetLatestNEO returns non-nil data from the cache and makes no upstream
\* call.
C33_ReadsWhatIsStored ==
    [][(IsRead("GetLatestNEO") /\ RLive(rcache, NEOStoreKey, rnow) /\ ret'.getUp)
         => /\ ret'.hit
            /\ ~ret'.err
            /\ ret'.val # NilMap
            /\ readFetches' = readFetches
      ]_vars

\* ============================================================ UpsertSpec
\* osdrRepository.BulkUpsert against the osdr_items table. The call runs its
\* loop inside one database transaction: the transaction works on its own
\* view of the table (`tx.rows`), which replaces the committed table when the
\* callback returns nil and the commit succeeds, and is dropped when the
\* callback returns an error. One step of the model is one iteration of the
\* loop; whether its lookup and its write succeed is an input of the step.
\* A row is [id, dataset, fields, created, inserted].
RowsOf(rows, k) == {r \in rows : r.dataset = k}

\* tx.Where("dataset_id = ?", k).First(&existing): the row found.
Existing(rows, k) == CHOOSE r \in RowsOf(rows, k) : TRUE

\* tx.Create(&item): ID and InsertedAt are left to their column defaults
\* (uuid_generate_v4(), now()), CreatedAt is autoCreateTime.
Created(rows, item, id, t) ==
    rows \cup {[id |-> id, dataset |-> item.dataset, fields |-> item.fields,
                created |-> t, inserted |-> t]}

\* Mutant of Saved: the row keeps the fields it had (the first write wins).
SavedKeepsOld(rows, item, existing) ==
    (rows \ {r \in rows : r.id = existing.id})
        \cup {[id |-> existing.id, dataset |-> item.dataset, fields |-> existing.fields,
               created |-> existing.created, inserted |-> ZeroTime]}

\* item.ID = existing.ID; item.CreatedAt = existing.CreatedAt; tx.Save(&item):
\* every column of the row of that ID is written from item, whose InsertedAt
\* was never set.
Saved(rows, item, existing) ==
    (rows \ {r \in rows : r.id = existing.id})
        \cup {[id |-> existing.id, dataset |-> item.dataset, fields |-> item.fields,
               created |-> existing.created, inserted |-> ZeroTime]}

\* A caller enters BulkUpsert(items): the transaction begins.
BulkUpsert(its) ==
    /\ tx.pc = "idle"
    /\ upserts < MaxUpserts
    /\ upserts' = upserts + 1
    /\ unow' = unow + 1
    /\ tx' = [pc |-> "loop", items |-> its, i |-> 1, rows |-> table, skipped |-> 0]
    /\ before' = table
    /\ uret' = "running"
    /\ UNCHANGED <<table, nextId, seen>>

\* Mutant of RolledBack: what the loop wrote before the error stays.
RolledBackPartly ==
    /\ tx' = [tx EXCEPT !.pc = "idle", !.items = <<>>, !.i = 0, !.rows = {}]
    /\ uret' = "err"
    /\ table' = tx.rows

\* The transaction is rolled back and BulkUpsert returns the error.
RolledBack ==
    /\ tx' = [tx EXCEPT !.pc = "idle", !.items = <<>>, !.i = 0, !.rows = {}]
    /\ uret' = "err"
    /\ table' = table

\* Mutant of UpsertItem: a record with an empty natural key aborts the batch.
UpsertItemRejectsEmptyKey(lookupOk, writeOk) ==
    /\ tx.pc = "loop"
    /\ tx.i <= Len(tx.items)
    /\ LET item == tx.items[tx.i] IN
       IF item.dataset = NoKey \/ ~lookupOk \/ ~writeOk
       THEN RolledBack /\ UNCHANGED nextId
       ELSE IF RowsOf(tx.rows, item.dataset) = {}
       THEN /\ tx' = [tx EXCEPT !.i = tx.i + 1,
                                !.rows = Created(tx.rows, item, nextId, unow)]
            /\ nextId' = nextId + 1
            /\ UNCHANGED <<table, uret>>
       ELSE /\ tx' = [tx EXCEPT !.i = tx.i + 1,
                                !.rows = Saved(tx.rows, item,
                                               Existing(tx.rows, item.dataset))]
            /\ UNCHANGED <<table, uret, nextId>>
    /\ UNCHANGED <<before, unow, upserts, seen>>

\* One iteration of `for _, item := range items`.
UpsertItem(lookupOk, writeOk) ==
    /\ tx.pc = "loop"
    /\ tx.i <= Len(tx.items)
    /\ LET item == tx.items[tx.i] IN
       IF item.dataset = NoKey
       THEN /\ tx' = [tx EXCEPT !.i = tx.i + 1, !.skipped = tx.skipped + 1]
            /\ UNCHANGED <<table, uret, nextId>>
       ELSE IF ~lookupOk
       THEN RolledBack /\ UNCHANGED nextId
       ELSE IF RowsOf(tx.rows, item.dataset) = {}
       THEN IF writeOk
            THEN /\ tx' = [tx EXCEPT !.i = tx.i + 1,
                                     !.rows = Created(tx.rows, item, nextId, unow)]
                 /\ nextId' = nextId + 1
                 /\ UNCHANGED <<table, uret>>
            ELSE RolledBack /\ UNCHANGED nextId
       ELSE IF writeOk
            THEN /\ tx' = [tx EXCEPT !.i = tx.i + 1,
                                     !.rows = Saved(tx.rows, item,
                                                    Existing(tx.rows, item.dataset))]
                 /\ UNCHANGED <<table, uret, nextId>>
            ELSE RolledBack /\ UNCHANGED nextId
    /\ UNCHANGED <<before, unow, upserts, seen>>

\* The callback has returned nil: the transaction commits, or the commit
\* fails and nothing of it is applied.
UpsertCommit(commitOk) ==
    /\ tx.pc = "loop"
    /\ tx.i > Len(tx.items)
    /\ IF commitOk
       THEN /\ table' = tx.rows
            /\ tx' = [tx EXCEPT !.pc = "idle", !.items = <<>>, !.i = 0, !.rows = {}]
            /\ uret' = "ok"
       ELSE RolledBack
    /\ UNCHANGED <<before, nextId, unow, upserts, seen>>

\* Another connection reads osdr_items (GetPaginated, GetByDatasetID, Count):
\* it is given the committed rows.
ReadTable ==
    /\ seen # table \/ tx.pc = "loop"
    /\ seen' = table
    /\ UNCHANGED <<table, tx, before, nextId, unow, uret, upserts>>

UpsertInit ==
    /\ dom = "OSDR"
    /\ SyncIdle
    /\ kind = "NASA"
    /\ WorkerIdle
    /\ SchedIdle
    /\ ReadIdle
    /\ UpsertIdle
    /\ LaterIdle
    /\ rop = "GetOSDRList"

UpsertNext ==
    \/ \E its \in Batches :
          BulkUpsert(its) /\ UNCHANGED <<syncVars, workerVars, schedVars, readVars, laterVars>>
    \/ \E lookupOk, writeOk \in BOOLEAN :
          UpsertItem(lookupOk, writeOk) /\ UNCHANGED <<syncVars, workerVars, schedVars, readVars, laterVars>>
    \/ \E commitOk \in BOOLEAN :
          UpsertCommit(commitOk) /\ UNCHANGED <<syncVars, workerVars, schedVars, readVars, laterVars>>
    \/ ReadTable /\ UNCHANGED <<syncVars, workerVars, schedVars, readVars, laterVars>>

UpsertSpec == UpsertInit /\ [][UpsertNext]_vars

\* =============================================== claims on UpsertSpec
\* The natural keys of the batch `its`, and its last item of key k.
KeysOf(its) == {its[i].dataset : i \in 1..Len(its)} \ {NoKey}
LastOf(its, k) ==
    its[CHOOSE i \in 1..Len(its) :
            its[i].dataset = k /\ \A j \in (i + 1)..Len(its) : its[j].dataset # k]

\* This step is the successful return of a BulkUpsert call.
UpsertReturnsOk == uret = "running" /\ uret' = "ok"

C24_EmptyKeySkipped ==
    [][/\ (tx.pc = "loop" /\ tx.i <= Len(tx.items) /\ tx' # tx
              /\ tx.items[tx.i].dataset = NoKey)
            => /\ tx' = [tx EXCEPT !.i = tx.i + 1, !.skipped = tx.skipped + 1]
               /\ uret' = uret
               /\ table' = table
       /\ UpsertReturnsOk
            => {r.dataset : r \in table'}
                   = {r.dataset : r \in table} \cup KeysOf(tx.items)
      ]_vars

\* A batch of one record with an empty key and one of key K1 returned
\* successfully, and the table holds the row of K1 alone.
C24_Witness ==
    /\ uret = "ok"
    /\ upserts = 1
    /\ tx.skipped = 1
    /\ Cardinality(table) = 1
    /\ Existing(table, "K1").fields = "b"


\* C25: while a BulkUpsert call is in progress, and after it has returned an
\* error, the committed table is as it was when the call began; a reader is
\* only ever given committed rows, so during a call it is given the table as
\* it was before the call; and a call ends with success or with an error.
C25_AllOrNothing ==
    [][/\ uret' \in {"running", "err"} => table' = before'
       /\ (uret = "running" /\ uret' # "running")
            => /\ uret' \in {"ok", "err"}
               /\ uret' = "err" => table' = table
               /\ uret' = "ok" => table' = tx.rows
       /\ seen' # seen => seen' = table
       /\ (seen' # seen /\ uret = "running") => seen' = before
      ]_vars

\* The second call created a row inside its transaction, then failed on its
\* second record: the table, and what a reader is given, is the one row the
\* first call committed.
C25_Witness ==
    /\ uret = "err"
    /\ upserts = 2
    /\ nextId = 3
    /\ Cardinality(before) = 1
    /\ table = before
    /\ seen = table


\* ============================================================== NasaSpec
\* NASAWorker.syncNASA: three calls on the NASA service in a row, each error
\* logged and nothing else done with it. What a sub-sync returns is what the
\* service can return (see Invoke .. SetLock above): FetchAndStoreOSDR nil at
\* the lock test ("skipped"), an upstream or repository error, or nil after
\* writing the lock; FetchAndStoreAPOD and FetchAndStoreNEO an upstream error,
\* the error of their cache write, or nil.
SubSyncOrder == <<"OSDR", "APOD", "NEO">>

\* syncNASA is entered: by Start, or by the run loop at a tick.
SyncNASA ==
    /\ syncPc = "idle"
    /\ syncs < MaxSyncs
    /\ syncs' = syncs + 1
    /\ syncPc' = "OSDR"
    /\ attempted' = <<>>
    /\ outcomes' = <<>>
    /\ UNCHANGED osdrLock

\* Mutant of SyncOSDR: an OSDR error ends the sync.
SyncOSDRReturnsOnError(getUp, apiOk, repoOk, setUp) ==
    /\ syncPc = "OSDR"
    /\ attempted' = Append(attempted, "OSDR")
    /\ LET r == IF getUp /\ osdrLock THEN "skipped"
                ELSE IF ~apiOk THEN "fetchErr"
                ELSE IF ~repoOk THEN "persistErr"
                ELSE "ok" IN
       /\ outcomes' = Append(outcomes, r)
       /\ osdrLock' = IF r = "ok" /\ setUp THEN TRUE ELSE osdrLock
       /\ syncPc' = IF r \in {"fetchErr", "persistErr"} THEN "idle" ELSE "APOD"
    /\ UNCHANGED syncs

\* `if err := w.service.FetchAndStoreOSDR(ctx); err != nil { log } else { log }`.
\* The lock test passes over a failed lookup; the lock is written only after
\* the fetch and the repository write went through, its own failure ignored.
SyncOSDR(getUp, apiOk, repoOk, setUp) ==
    /\ syncPc = "OSDR"
    /\ attempted' = Append(attempted, "OSDR")
    /\ LET r == IF getUp /\ osdrLock THEN "skipped"
                ELSE IF ~apiOk THEN "fetchErr"
                ELSE IF ~repoOk THEN "persistErr"
                ELSE "ok" IN
       /\ outcomes' = Append(outcomes, r)
       /\ osdrLock' = IF r = "ok" /\ setUp THEN TRUE ELSE osdrLock
    /\ syncPc' = "APOD"
    /\ UNCHANGED syncs

\* `if err := w.service.FetchAndStoreAPOD(ctx); err != nil { log } else { log }`.
SyncAPOD(apiOk, setUp) ==
    /\ syncPc = "APOD"
    /\ attempted' = Append(attempted, "APOD")
    /\ outcomes' = Append(outcomes, IF ~apiOk THEN "fetchErr"
                                    ELSE IF ~setUp THEN "cacheErr" ELSE "ok")
    /\ syncPc' = "NEO"
    /\ UNCHANGED <<osdrLock, syncs>>

\* `if err := w.service.FetchAndStoreNEO(ctx); err != nil { log } else { log }`,
\* then "Sync completed" and the return.
SyncNEO(apiOk, setUp) ==
    /\ syncPc = "NEO"
    /\ attempted' = Append(attempted, "NEO")
    /\ outcomes' = Append(outcomes, IF ~apiOk THEN "fetchErr"
                                    ELSE IF ~setUp THEN "cacheErr" ELSE "ok")
    /\ syncPc' = "idle"
    /\ UNCHANGED <<osdrLock, syncs>>

\* Redis drops the OSDR lock key when its ten minutes are over.
OSDRLockExpire ==
    /\ osdrLock
    /\ osdrLock' = FALSE
    /\ UNCHANGED <<syncPc, attempted, outcomes, syncs>>

NasaOthers == <<syncVars, workerVars, schedVars, readVars, upsertVars, tickVars, limiterVars,
               extractVars, trendVars, telemetryVars, setVars>>

NasaInit ==
    /\ dom = "OSDR"
    /\ SyncIdle
    /\ kind = "NASA"
    /\ WorkerIdle
    /\ SchedIdle
    /\ ReadIdle
    /\ UpsertIdle
    /\ LaterIdle
    /\ rop = "GetOSDRList"

NasaNext ==
    \/ SyncNASA /\ UNCHANGED NasaOthers
    \/ \E getUp, apiOk, repoOk, setUp \in BOOLEAN :
          SyncOSDR(getUp, apiOk, repoOk, setUp) /\ UNCHANGED NasaOthers
    \/ \E apiOk, setUp \in BOOLEAN : SyncAPOD(apiOk, setUp) /\ UNCHANGED NasaOthers
    \/ \E apiOk, setUp \in BOOLEAN : SyncNEO(apiOk, setUp) /\ UNCHANGED NasaOthers
    \/ OSDRLockExpire /\ UNCHANGED NasaOthers

NasaSpec == NasaInit /\ [][NasaNext]_vars

\* =============================================== claims on NasaSpec
IsPrefix(s, t) == Len(s) <= Len(t) /\ \A i \in 1..Len(s) : s[i] = t[i]

\* C31: a sync calls its sub-syncs in the order OSDR, APOD, NEO, each once:
\* what it has called so far is always a prefix of that order, with one
\* outcome per call, and a sync that has returned has called all three,
\* whatever the earlier ones returned.
C31_SubSyncOrder ==
    /\ IsPrefix(attempted, SubSyncOrder)
    /\ Len(outcomes) = Len(attempted)
    /\ (syncPc = "idle" /\ syncs > 0) => attempted = SubSyncOrder

\* The second sync has returned; its OSDR sub-sync failed and its APOD
\* sub-sync failed too, and NEO was still called.
C31_Witness ==
    /\ syncPc = "idle"
    /\ syncs = 2
    /\ attempted = SubSyncOrder
    /\ outcomes[1] \in {"fetchErr", "persistErr"}
    /\ outcomes[2] = "cacheErr"


\* ============================================================== TickSpec
\* ISSWorker.run with the default configuration: the worker's ticker and the
\* fetch lock of FetchAndStoreISSData both last WorkerISSInterval =
\* ISSInterval seconds. The ticker is created before the first call; its
\* channel holds one tick and a tick that finds it full is dropped.
TickSteps == {10, 20, 90}

\* Time passes, never past the ticker's next instant without the tick. The
\* run loop itself takes no time: what lasts is the upstream call and the
\* wait in select.
TickAdvance(d) ==
    /\ wpc = "fetching" \/ (wpc = "select" /\ ~ticker.pending)
    /\ tnow + d <= MaxTickTime
    /\ tnow + d <= ticker.next
    /\ tnow' = tnow + d
    /\ UNCHANGED <<ticker, lockExp, wpc, invokedAt, byTick, lastTick, tFailed>>

\* The ticker fires on its instant.
TickerFire ==
    /\ tnow = ticker.next
    /\ ticker' = [next |-> ticker.next + WorkerISSInterval, pending |-> TRUE]
    /\ UNCHANGED <<tnow, lockExp, wpc, invokedAt, byTick, lastTick, tFailed>>

\* fetchISSData is called, first thing in run or on `case <-ticker.C`, and
\* FetchAndStoreISSData makes its lock test: `err == nil && cached != ""`
\* returns nil, anything else goes on to the upstream call.
IssInvoke(getUp) ==
    /\ wpc = "first" \/ (wpc = "select" /\ ticker.pending)
    /\ LET tick == wpc = "select"
           locked == getUp /\ lockExp > tnow IN
       /\ ticker' = IF tick THEN [ticker EXCEPT !.pending = FALSE] ELSE ticker
       /\ wpc' = IF locked THEN "select" ELSE "fetching"
       /\ byTick' = (tick /\ ~locked)
       /\ lastTick' = IF tick /\ locked THEN "skipped" ELSE lastTick
    /\ invokedAt' = tnow
    /\ tFailed' = (tFailed \/ ~getUp)
    /\ UNCHANGED <<tnow, lockExp>>

\* The upstream call answers, within the 30 seconds of the context or with
\* its error; then repo.Create, whose error is returned; then the two cache
\* writes, the lock last, with the TTL s.interval, its failure logged.
IssFetchDone(apiOk, repoOk, setUp) ==
    /\ wpc = "fetching"
    /\ apiOk => tnow - invokedAt <= ISSFetchTimeout
    /\ lockExp' = IF apiOk /\ repoOk /\ setUp THEN tnow + ISSInterval ELSE lockExp
    /\ lastTick' = IF byTick THEN (IF apiOk THEN "fetched" ELSE "skipped") ELSE lastTick
    /\ tFailed' = (tFailed \/ ~apiOk \/ ~repoOk \/ ~setUp)
    /\ wpc' = "select"
    /\ byTick' = FALSE
    /\ UNCHANGED <<tnow, ticker, invokedAt>>

TickOthers == <<syncVars, workerVars, schedVars, readVars, upsertVars, nasaVars, limiterVars,
               extractVars, trendVars, telemetryVars, setVars>>

TickInit ==
    /\ dom = "ISS"
    /\ SyncIdle
    /\ kind = "ISS"
    /\ WorkerIdle
    /\ SchedIdle
    /\ ReadIdle
    /\ UpsertIdle
    /\ LaterIdle
    /\ rop = "GetLastPosition"

TickNext ==
    \/ \E d \in TickSteps : TickAdvance(d) /\ UNCHANGED TickOthers
    \/ TickerFire /\ UNCHANGED TickOthers
    \/ \E getUp \in BOOLEAN : IssInvoke(getUp) /\ UNCHANGED TickOthers
    \/ \E apiOk, repoOk, setUp \in BOOLEAN :
          IssFetchDone(apiOk, repoOk, setUp) /\ UNCHANGED TickOthers

TickSpec == TickInit /\ [][TickNext]_vars

\* =============================================== claims on TickSpec
\* C32: with the tick interval equal to the lock TTL and no call failing, no
\* tick's invocation is skipped at the lock test: each performs the upstream
\* fetch.
C32_EveryTickFetches ==
    ~tFailed => lastTick # "skipped"


\* =========================================================== LimiterSpec
\* IPRateLimiter: GetLimiter and AddIP, each `i.mu.Lock(); defer
\* i.mu.Unlock()` around its body, called by concurrent request goroutines.
\* sync.RWMutex is not reentrant: Lock waits until the mutex is unlocked,
\* whoever holds it.

\* IPRateLimitMiddleware calls ipLimiter.GetLimiter(clientIP).
GetLimiterCall(h, ip) ==
    /\ lpc[h] = "idle"
    /\ lpc' = [lpc EXCEPT ![h] = "getLock"]
    /\ larg' = [larg EXCEPT ![h] = ip]
    /\ nested' = [nested EXCEPT ![h] = FALSE]
    /\ UNCHANGED <<ips, mu, lgot, limiters>>

\* AddIP called on its own; it is exported.
AddIPCall(h, ip) ==
    /\ lpc[h] = "idle"
    /\ limiters < MaxLimiters
    /\ lpc' = [lpc EXCEPT ![h] = "addLock"]
    /\ larg' = [larg EXCEPT ![h] = ip]
    /\ nested' = [nested EXCEPT ![h] = FALSE]
    /\ UNCHANGED <<ips, mu, lgot, limiters>>

\* `i.mu.Lock()`, in GetLimiter or in AddIP.
Lock(h) ==
    /\ lpc[h] \in {"getLock", "addLock"}
    /\ ~mu
    /\ mu' = TRUE
    /\ lpc' = [lpc EXCEPT ![h] = IF lpc[h] = "getLock" THEN "lookup" ELSE "add"]
    /\ UNCHANGED <<ips, larg, nested, lgot, limiters>>

\* `limiter, exists := i.ips[ip]; if !exists { return i.AddIP(ip) }; return
\* limiter`: the call of AddIP is made with the mutex held.
Lookup(h) ==
    /\ lpc[h] = "lookup"
    /\ IF ips[larg[h]] = NoLimiter
       THEN /\ lpc' = [lpc EXCEPT ![h] = "addLock"]
            /\ nested' = [nested EXCEPT ![h] = TRUE]
            /\ lgot' = lgot
       ELSE /\ lpc' = [lpc EXCEPT ![h] = "getUnlock"]
            /\ lgot' = [lgot EXCEPT ![h] = ips[larg[h]]]
            /\ nested' = nested
    /\ UNCHANGED <<ips, mu, larg, limiters>>

\* `limiter := rate.NewLimiter(i.r, i.b); i.ips[ip] = limiter; return limiter`.
AddIP(h) ==
    /\ lpc[h] = "add"
    /\ limiters' = limiters + 1
    /\ ips' = [ips EXCEPT ![larg[h]] = limiters + 1]
    /\ lgot' = [lgot EXCEPT ![h] = limiters + 1]
    /\ lpc' = [lpc EXCEPT ![h] = "addUnlock"]
    /\ UNCHANGED <<mu, larg, nested>>

\* The deferred `i.mu.Unlock()` and the return: of AddIP, back into
\* GetLimiter when that is its caller, and of GetLimiter.
Unlock(h) ==
    /\ lpc[h] \in {"addUnlock", "getUnlock"}
    /\ mu' = FALSE
    /\ lpc' = [lpc EXCEPT ![h] = IF lpc[h] = "addUnlock" /\ nested[h]
                                 THEN "getUnlock" ELSE "idle"]
    /\ nested' = [nested EXCEPT ![h] = FALSE]
    /\ UNCHANGED <<ips, larg, lgot, limiters>>

LimiterOthers == <<syncVars, workerVars, schedVars, readVars, upsertVars, nasaVars, tickVars,
                  extractVars, trendVars, telemetryVars, setVars>>

LimiterInit ==
    /\ dom = "ISS"
    /\ SyncIdle
    /\ kind = "ISS"
    /\ WorkerIdle
    /\ SchedIdle
    /\ ReadIdle
    /\ UpsertIdle
    /\ LaterIdle
    /\ rop = "GetLastPosition"

LimiterNext ==
    \/ \E h \in Handlers, ip \in ClientIPs : GetLimiterCall(h, ip) /\ UNCHANGED LimiterOthers
    \/ \E h \in Handlers, ip \in ClientIPs : AddIPCall(h, ip) /\ UNCHANGED LimiterOthers
    \/ \E h \in Handlers : Lock(h) /\ UNCHANGED LimiterOthers
    \/ \E h \in Handlers : Lookup(h) /\ UNCHANGED LimiterOthers
    \/ \E h \in Handlers : AddIP(h) /\ UNCHANGED LimiterOthers
    \/ \E h \in Handlers : Unlock(h) /\ UNCHANGED LimiterOthers

LimiterSpec == LimiterInit /\ [][LimiterNext]_vars

\* Every step of a call in progress is taken sooner or later, and a
\* goroutine waiting in Lock gets the mutex if it is unlocked again and
\* again.
LimiterFairSpec ==
    /\ LimiterSpec
    /\ \A h \in Handlers :
          /\ SF_vars(Lock(h) /\ UNCHANGED LimiterOthers)
          /\ WF_vars(Lookup(h) /\ UNCHANGED LimiterOthers)
          /\ WF_vars(AddIP(h) /\ UNCHANGED LimiterOthers)
          /\ WF_vars(Unlock(h) /\ UNCHANGED LimiterOthers)

\* =============================================== claims on LimiterSpec
\* C34: every call of GetLimiter returns, whatever the IP and whatever the
\* other requests do: a goroutine that has entered GetLimiter is sooner or
\* later out of it again.
C34_GetLimiterReturns ==
    \A h \in Handlers : (lpc[h] = "getLock") ~> (lpc[h] = "idle")


\* =========================================================== ExtractSpec
\* extractString and extractFloat applied to a decoded document.
IsDigit(c) == c = "1"
DigitValue(c) == 1

\* The float token fmt's scanner reads for the verb %f: the longest prefix
\* of the input that can belong to a number, here its leading digits. What
\* follows the token stays unread and is no error.
RECURSIVE floatToken(_)
floatToken(s) ==
    IF s = <<>> THEN <<>>
    ELSE IF IsDigit(Head(s)) THEN <<Head(s)>> \o floatToken(Tail(s))
    ELSE <<>>

\* The number a string of digits denotes.
RECURSIVE ParseFloat(_)
ParseFloat(s) ==
    IF s = <<>> THEN 0
    ELSE 10 * ParseFloat(SubSeq(s, 1, Len(s) - 1)) + DigitValue(s[Len(s)])

\* fmt.Sscanf(v, "%f", &f): an empty token is an error, anything else is
\* converted and stored.
Sscanf(s) ==
    LET tok == floatToken(s)
    IN  IF tok = <<>> THEN [err |-> TRUE, f |-> 0]
        ELSE [err |-> FALSE, f |-> ParseFloat(tok)]

\* extractString(data, keys...): the keys in order; the first one present
\* whose value is a string and not "" gives the result, "" if there is none.
RECURSIVE extractString(_, _)
extractString(m, keys) ==
    IF keys = <<>> THEN <<>>
    ELSE LET val == m[Head(keys)]
         IN  IF val.t = "string" /\ val.s # <<>> THEN val.s
             ELSE extractString(m, Tail(keys))

\* extractFloat(m, key): a type switch over float64, float32, int and
\* string; every other case, and a key that is absent, falls through to
\* `return 0`.
extractFloat(m, key) ==
    LET val == m[key]
    IN  IF val.t \in {"float64", "int"} THEN val.f
        ELSE IF val.t = "string" /\ ~Sscanf(val.s).err THEN Sscanf(val.s).f
        ELSE 0

ExtractString ==
    /\ xret' = [op |-> "extractString", key |-> "", str |-> extractString(doc, DocKeys),
                num |-> 0]
    /\ UNCHANGED doc

ExtractFloat(key) ==
    /\ xret' = [op |-> "extractFloat", key |-> key, str |-> <<>>,
                num |-> extractFloat(doc, key)]
    /\ UNCHANGED doc

ExtractOthers == <<syncVars, workerVars, schedVars, readVars, upsertVars, nasaVars, tickVars,
                  limiterVars, trendVars, telemetryVars, setVars>>

ExtractInit ==
    /\ dom = "ISS"
    /\ SyncIdle
    /\ kind = "ISS"
    /\ WorkerIdle
    /\ SchedIdle
    /\ ReadIdle
    /\ UpsertIdle
    /\ NasaIdle
    /\ TickIdle
    /\ LimiterIdle
    /\ TrendIdle
    /\ TelemetryIdle
    /\ SetIdle
    /\ rop = "GetLastPosition"
    /\ doc \in Docs
    /\ xret = NoExtract

ExtractNext ==
    \/ ExtractString /\ UNCHANGED ExtractOthers
    \/ \E key \in {"k1", "k2"} : ExtractFloat(key) /\ UNCHANGED ExtractOthers

ExtractSpec == ExtractInit /\ [][ExtractNext]_vars

\* =============================================== claims on ExtractSpec
\* A string that is a number from its first character to its last.
IsNumeric(s) == s # <<>> /\ \A i \in 1..Len(s) : IsDigit(s[i])

\* The places in the priority order that hold a non-empty string.
Usable == {i \in 1..Len(DocKeys) : doc[DocKeys[i]].t = "string" /\ doc[DocKeys[i]].s # <<>>}

\* C35: extractString returns the value of the first key, in priority order,
\* that holds a non-empty string, and "" when no key does; extractFloat
\* returns the number for a float, an integer and a numeric string, and 0
\* for a field that is absent or is not a number.
C35_FirstUsableCandidate ==
    /\ xret.op = "extractString" =>
          IF Usable = {} THEN xret.str = <<>>
          ELSE \E i \in Usable :
                  /\ \A j \in Usable : i <= j
                  /\ xret.str = doc[DocKeys[i]].s
    /\ xret.op = "extractFloat" =>
          LET val == doc[xret.key]
          IN  IF val.t \in {"float64", "int"} THEN xret.num = val.f
              ELSE IF val.t = "string" /\ IsNumeric(val.s) THEN xret.num = ParseFloat(val.s)
              ELSE xret.num = 0


\* ============================================================= TrendSpec
\* calculateTrend(current, previous) on two samples of the repository.

\* GetTrend: `calculatedTrend := s.calculateTrend(positions[0], positions[1])`.
CalculateTrend ==
    /\ ~trend.done
    /\ trend' = [done |-> TRUE, val |-> calculateTrend(newer, older)]
    /\ UNCHANGED <<newer, older>>

\* The caller is done with the trend.
TrendReturn ==
    /\ trend.done
    /\ trend' = NoTrend
    /\ UNCHANGED <<newer, older>>

TrendOthers == <<syncVars, workerVars, schedVars, readVars, upsertVars, nasaVars, tickVars,
                limiterVars, extractVars, telemetryVars, setVars>>

TrendInit ==
    /\ dom = "ISS"
    /\ SyncIdle
    /\ kind = "ISS"
    /\ WorkerIdle
    /\ SchedIdle
    /\ ReadIdle
    /\ UpsertIdle
    /\ NasaIdle
    /\ TickIdle
    /\ LimiterIdle
    /\ ExtractIdle
    /\ TelemetryIdle
    /\ SetIdle
    /\ rop = "GetTrend"
    /\ older \in [pos : TrendPositions, at : {0}]
    /\ newer \in [pos : TrendPositions, at : TrendGaps]
    /\ trend = NoTrend

TrendNext ==
    \/ CalculateTrend /\ UNCHANGED TrendOthers
    \/ TrendReturn /\ UNCHANGED TrendOthers

TrendSpec == TrendInit /\ [][TrendNext]_vars

\* =============================================== claims on TrendSpec
\* C36: the trend calculateTrend returns has movement true exactly when its
\* distance is more than 0.1 km; for two samples at the same coordinates the
\* distance is 0 and movement is false; the velocity in km/h is there only
\* when the newer sample's velocity is above 0, and is then 3.6 times it.
C36_MovementRule ==
    trend.done =>
        /\ trend.val.movement <=> (trend.val.delta > MovementMetres)
        /\ (newer.pos.lat = older.pos.lat /\ newer.pos.lon = older.pos.lon)
              => (trend.val.delta = 0 /\ ~trend.val.movement)
        /\ (newer.pos.lat # older.pos.lat) => trend.val.delta > 0
        /\ trend.val.velocity # <<>> <=> newer.pos.vel > 0
        /\ trend.val.velocity # <<>> => 10 * trend.val.velocity[1] = 36 * newer.pos.vel

\* A trend over 88 m, short of the threshold: no movement, although the
\* newer sample reports a velocity, which is converted.
C36_Witness ==
    /\ trend.done
    /\ trend.val.delta > 0
    /\ trend.val.delta < MovementMetres
    /\ ~trend.val.movement
    /\ trend.val.velocity = <<18>>


\* ========================================================= TelemetrySpec
\* telemetryService.GenerateTelemetry: SampleCount generated records (100 in
\* the program), written to a CSV file and then inserted one by one.

\* TelemetryWorker.generateTelemetry or a handler calls GenerateTelemetry.
GenerateTelemetry ==
    /\ gpc = "idle"
    /\ generations < MaxGenerations
    /\ generations' = generations + 1
    /\ gpc' = "csv"
    /\ csvFile' = "none"
    /\ gi' = 0
    /\ storedBefore' = stored
    /\ gret' = [state |-> "running", records |-> 0]
    /\ UNCHANGED stored

\* saveToCSV and the test of its result. os.Create may fail: the error is
\* returned. The rows go through csv.Writer, which buffers them: a write to
\* the file that fails while rows are still being written shows up as the
\* error of a later writer.Write and is returned; one that fails in the
\* deferred writer.Flush(), after the last row, is reported to nobody
\* (Flush returns nothing, writer.Error() is not called) and saveToCSV
\* returns nil.
SaveToCSV(createOk, writeOk, flushOk) ==
    /\ gpc = "csv"
    /\ csvFile' = IF ~createOk THEN "none"
                  ELSE IF writeOk /\ flushOk THEN "complete" ELSE "broken"
    /\ IF createOk /\ writeOk
       THEN /\ gpc' = "insert"
            /\ gret' = gret
       ELSE /\ gpc' = "idle"
            /\ gret' = [state |-> "err", records |-> 0]
    /\ UNCHANGED <<gi, stored, storedBefore, generations>>

\* One turn of `for _, record := range records`: repo.Create, its error
\* logged; after the last record the batch is returned with Records =
\* len(records).
CreateRecord(ok) ==
    /\ gpc = "insert"
    /\ gi < SampleCount
    /\ gi' = gi + 1
    /\ stored' = IF ok THEN stored + 1 ELSE stored
    /\ IF gi + 1 = SampleCount
       THEN /\ gpc' = "idle"
            /\ gret' = [state |-> "ok", records |-> SampleCount]
       ELSE /\ gpc' = gpc
            /\ gret' = gret
    /\ UNCHANGED <<csvFile, storedBefore, generations>>

TelemetryOthers == <<syncVars, workerVars, schedVars, readVars, upsertVars, nasaVars, tickVars,
                    limiterVars, extractVars, trendVars, setVars>>

TelemetryInit ==
    /\ dom = "ISS"
    /\ SyncIdle
    /\ kind = "Telemetry"
    /\ WorkerIdle
    /\ SchedIdle
    /\ ReadIdle
    /\ UpsertIdle
    /\ LaterIdle
    /\ rop = "GetLastPosition"

TelemetryNext ==
    \/ GenerateTelemetry /\ UNCHANGED TelemetryOthers
    \/ \E createOk, writeOk, flushOk \in BOOLEAN :
          SaveToCSV(createOk, writeOk, flushOk) /\ UNCHANGED TelemetryOthers
    \/ \E ok \in BOOLEAN : CreateRecord(ok) /\ UNCHANGED TelemetryOthers

TelemetrySpec == TelemetryInit /\ [][TelemetryNext]_vars

\* =============================================== claims on TelemetrySpec
\* C38: a call whose CSV file was not written in full returns an error and
\* creates no repository record; a call whose CSV file was written goes
\* through every record, whatever the inserts before it did, and returns
\* success with the count of all generated records.
C38_PersistencePolicy ==
    /\ (gpc = "idle" /\ generations > 0 /\ csvFile # "complete")
          => (gret.state = "err" /\ stored = storedBefore)
    /\ (gpc = "idle" /\ generations > 0 /\ csvFile = "complete")
          => (gret.state = "ok" /\ gi = SampleCount /\ gret.records = SampleCount)


\* =============================================================== SetSpec
\* cacheRepository.Set (and redisRepository.Set, the same text):
\*     var err error
\*     switch v := value.(type) {
\*     case string:  err = r.client.Set(ctx, key, v, expiration).Err()
\*     case []byte:  err = r.client.Set(ctx, key, v, expiration).Err()
\*     default:      jsonData, err := json.Marshal(v)
\*                   if err != nil { return fmt.Errorf(...) }
\*                   err = r.client.Set(ctx, key, jsonData, expiration).Err()
\*     }
\*     return err
\* The `:=` of the default case declares a second err, local to that case;
\* the assignment after it goes to that one, and `return err` returns the
\* first, which the default case never assigns.
SetReturnsErr(value, up) ==
    IF value.t \in {"string", "bytes"} THEN ~up
    ELSE IF ~value.marshals THEN TRUE
    ELSE FALSE

\* Whether Set hands anything to the store: always, but for a value that
\* cannot be marshalled.
SetWrites(value) == value.t \in {"string", "bytes"} \/ value.marshals

Set(key, value, up) ==
    /\ ~sret.called
    /\ kv' = IF SetWrites(value) /\ up THEN [kv EXCEPT ![key] = value.bytes] ELSE kv
    /\ sret' = [called |-> TRUE, t |-> value.t, marshals |-> value.marshals,
                up |-> up, err |-> SetReturnsErr(value, up)]

\* The caller has looked at the result.
SetReturn ==
    /\ sret.called
    /\ sret' = NoSet
    /\ UNCHANGED kv

SetOthers == <<syncVars, workerVars, schedVars, readVars, upsertVars, nasaVars, tickVars,
              limiterVars, extractVars, trendVars, telemetryVars>>

SetInit ==
    /\ dom = "ISS"
    /\ SyncIdle
    /\ kind = "ISS"
    /\ WorkerIdle
    /\ SchedIdle
    /\ ReadIdle
    /\ UpsertIdle
    /\ LaterIdle
    /\ rop = "GetLastPosition"

SetNext ==
    \/ \E key \in SetKeys, value \in SetValues, up \in BOOLEAN :
          Set(key, value, up) /\ UNCHANGED SetOthers
    \/ SetReturn /\ UNCHANGED SetOthers

SetSpec == SetInit /\ [][SetNext]_vars

\* =============================================== claims on SetSpec
\* C39: a Set whose store write fails returns an error, be the value a
\* string, a byte slice or a structured value serialized to JSON.
C39_SetReportsStoreFailure ==
    (sret.called /\ sret.marshals /\ ~sret.up) => sret.err

====
